---- MODULE Spec2Model ----
(***************************************************************************)
(* SizeFS: the in-memory mock filesystem of sizefs/sizefsFuse.py and the   *)
(* content generators of sizefs/contents.py.                               *)
(*                                                                         *)
(* Python strings are sequences of one-character strings, so that          *)
(* startswith, os.path.split, os.path.join, the filename regex and the     *)
(* Xeger pattern parser are computed character by character as the code    *)
(* computes them.                                                          *)
(***************************************************************************)
EXTENDS Integers, Sequences, FiniteSets, TLC

(***************************************************************************)
(* String helpers (Python str operations used by the code)                 *)
(***************************************************************************)

\* s[a:b] for 0 <= a, 0 <= b (0-based, half-open), clipped like Python
Slice(s, a, b) ==
  LET hi == IF b > Len(s) THEN Len(s) ELSE b
  IN  IF a >= hi THEN << >> ELSE SubSeq(s, a + 1, hi)

\* s.startswith(p)
StartsWith(s, p) ==
  /\ Len(p) <= Len(s)
  /\ SubSeq(s, 1, Len(p)) = p

\* c in s
Contains(s, c) == \E i \in 1..Len(s) : s[i] = c

\* s.rfind('/', 0, i) + 1: the scan from position i down
RECURSIVE RFindSlashFrom(_, _)
RFindSlashFrom(s, i) ==
  IF i = 0 \/ s[i] = "/" THEN i ELSE RFindSlashFrom(s, i - 1)

\* s.rfind('/') + 1
RFindSlash(s) == RFindSlashFrom(s, Len(s))

\* head.rstrip('/')
RECURSIVE RStripSlash(_)
RStripSlash(s) ==
  IF s # << >> /\ s[Len(s)] = "/" THEN RStripSlash(SubSeq(s, 1, Len(s) - 1))
  ELSE s

\* ''.join(list of strings)
RECURSIVE Join(_)
Join(items) ==
  IF items = << >> THEN << >> ELSE Head(items) \o Join(Tail(items))

\* chars * n
RECURSIVE Repeat(_, _)
Repeat(s, n) == IF n <= 0 THEN << >> ELSE s \o Repeat(s, n - 1)

\* posixpath.split(path): (head, tail)
PathSplit(p) ==
  LET i    == RFindSlash(p)
      head == Slice(p, 0, i)
      tail == Slice(p, i, Len(p))
  IN  IF head # << >> /\ (\E j \in 1..Len(head) : head[j] # "/")
      THEN <<RStripSlash(head), tail>>
      ELSE <<head, tail>>

\* posixpath.join(a, b)
PathJoin(a, b) ==
  IF StartsWith(b, <<"/">>) THEN b
  ELSE IF a = << >> \/ a[Len(a)] = "/" THEN a \o b
  ELSE a \o <<"/">> \o b

(***************************************************************************)
(* String constants of the program                                         *)
(***************************************************************************)
ROOT == <<"/">>

USER_PREFIX == <<"u", "s", "e", "r", ".">>

ZEROS == <<"z", "e", "r", "o", "s">>

ONES == <<"o", "n", "e", "s">>

ALPHA_NUM == <<"a", "l", "p", "h", "a", "_", "n", "u", "m">>

REGEX == <<"r", "e", "g", "e", "x">>

K_GENERATOR == USER_PREFIX \o <<"g", "e", "n", "e", "r", "a", "t", "o", "r">>

K_FILLER == USER_PREFIX \o <<"f", "i", "l", "l", "e", "r">>

K_PREFIX == USER_PREFIX \o <<"p", "r", "e", "f", "i", "x">>

K_SUFFIX == USER_PREFIX \o <<"s", "u", "f", "f", "i", "x">>

K_PADDER == USER_PREFIX \o <<"p", "a", "d", "d", "e", "r">>

K_MAX_RANDOM == USER_PREFIX \o <<"m", "a", "x", "_", "r", "a", "n", "d", "o", "m">>

DEFAULT_MAX_RANDOM == <<"1", "0">>

ONE_K == 1000

default_files ==
  << <<"1", "0", "0", "K">>, <<"4", "M">>, <<"4", "M", "-", "1", "B">>,
     <<"4", "M", "+", "1", "B">> >>

\* the size units whose multiplier fits the model's integers
sizes ==
  [c \in {"B", "K", "M", "G"} |->
     CASE c = "B" -> 1
       [] c = "K" -> ONE_K
       [] c = "M" -> ONE_K * ONE_K
       [] c = "G" -> ONE_K * ONE_K * ONE_K]

DigitChars == {"0", "1", "2", "3", "4", "5", "6", "7", "8", "9"}

DigitVal(c) ==
  CASE c = "0" -> 0 [] c = "1" -> 1 [] c = "2" -> 2 [] c = "3" -> 3
    [] c = "4" -> 4 [] c = "5" -> 5 [] c = "6" -> 6 [] c = "7" -> 7
    [] c = "8" -> 8 [] c = "9" -> 9

\* int(digits) for a non-empty run of decimal digits
RECURSIVE IntOf(_)
IntOf(ds) ==
  IF ds = << >> THEN 0
  ELSE IntOf(SubSeq(ds, 1, Len(ds) - 1)) * 10 + DigitVal(ds[Len(ds)])

IsDigits(s) == s # << >> /\ \A i \in 1..Len(s) : s[i] \in DigitChars

\* length of the longest run of digits at the start of s
RECURSIVE DigitRun(_)
DigitRun(s) ==
  IF s # << >> /\ Head(s) \in DigitChars THEN 1 + DigitRun(Tail(s)) ELSE 0

(***************************************************************************)
(* FILE_REGEX.match(filename): the groups of the match, or matched = FALSE *)
(* ^(size: [0-9]+(\.[0-9])?)(size_si)((operator: [\+|\-])(shift: \d+)      *)
(*  (shift_si))?$                                                          *)
(***************************************************************************)
NoMatch == [matched |-> FALSE]

FILE_REGEX_match(name) ==
  LET n1   == DigitRun(name)
      r1   == Slice(name, n1, Len(name))
      dec  == Len(r1) >= 2 /\ r1[1] = "." /\ r1[2] \in DigitChars
      \* the regex backtracks: try the decimal part first, then without it
      Try(withDec) ==
        LET r2 == IF withDec THEN Slice(r1, 2, Len(r1)) ELSE r1
            d  == IF withDec THEN DigitVal(r1[2]) ELSE 0
        IN  IF r2 = << >> \/ r2[1] \notin DOMAIN sizes THEN NoMatch
            ELSE LET r3 == Tail(r2)
                     base == [matched |-> TRUE, int_part |-> IntOf(SubSeq(name, 1, n1)),
                              dec_digit |-> d, size_si |-> r2[1]]
                 IN  IF r3 = << >>
                     THEN base @@ [operator |-> "None", shift |-> 0, shift_si |-> "B"]
                     ELSE LET n2 == DigitRun(Tail(r3))
                              r4 == Slice(r3, 1 + n2, Len(r3))
                          IN  IF /\ r3[1] \in {"+", "|", "-"}
                                 /\ n2 >= 1
                                 /\ Len(r4) = 1
                                 /\ r4[1] \in DOMAIN sizes
                              THEN base @@ [operator |-> r3[1],
                                            shift |-> IntOf(SubSeq(r3, 2, 1 + n2)),
                                            shift_si |-> r4[1]]
                              ELSE NoMatch
  IN  IF n1 = 0 THEN NoMatch
      ELSE IF dec /\ Try(TRUE).matched THEN Try(TRUE)
      ELSE Try(FALSE)

\* the largest t with base * 2^t <= n, for n >= base >= 1
RECURSIVE Log2Floor(_, _)
Log2Floor(n, base) == IF 2 * base <= n THEN 1 + Log2Floor(n, 2 * base) ELSE 0

\* 2^e mod 10, for e >= 1
Pow2Mod10(e) ==
  CASE e % 4 = 1 -> 2 [] e % 4 = 2 -> 4 [] e % 4 = 3 -> 8 [] e % 4 = 0 -> 6

\* float(size) * size_unit in IEEE double arithmetic falls below the exact
\* product x * size_unit / 10 (x the size in tenths, size_unit a power of
\* 1000): float(size) is x / 10 rounded to 53 bits, which is below x / 10 by
\* r / (10 * 2^e), r = x * 2^e mod 10, when 0 < r < 5; the product is then
\* rounded to the double below the exact one when that deficit times
\* size_unit is more than half the spacing of doubles at the exact product.
\* (Exact products below 2^28 keep the comparison within the integers.)
rounds_below(x, size_unit) ==
  LET j4 == Log2Floor(8 * x, 5)
      r  == ((x % 10) * Pow2Mod10(56 - j4)) % 10
      k  == Log2Floor(x * (size_unit \div 10), 1)
  IN  /\ 0 < r
      /\ r < 5
      /\ r * 2^j4 > (2^(k + 3)) \div (size_unit \div 10)

\* int(init_size * size_unit) of _calculate_file_size, init_size the float
\* of a decimal with at most one digit after the point
float_product(int_part, dec_digit, size_unit) ==
  LET exact == int_part * size_unit + dec_digit * (size_unit \div 10)
  IN  IF dec_digit = 0 \/ size_unit = 1 THEN exact
      ELSE IF rounds_below(10 * int_part + dec_digit, size_unit)
      THEN exact - 1
      ELSE exact

\* SizefsFuse._calculate_file_size
calculate_file_size(m) ==
  LET size_unit == sizes[m.size_si]
      size      == float_product(m.int_part, m.dec_digit, size_unit)
      shift_size == m.shift * sizes[m.shift_si]
      shifted   == IF m.operator = "-" THEN size - shift_size
                   ELSE IF m.operator = "+" THEN size + shift_size
                   ELSE size
  IN  IF shifted < 0 THEN 0 ELSE shifted

(***************************************************************************)
(* Xeger pattern parser (contents.py).  A parser consumes the shared list  *)
(* of characters `regex`; each operator returns the parsed object and the  *)
(* list that is left, or the exception raised.                             *)
(*   sequence   [t |-> "seq", s]            XegerSequence                  *)
(*   set        [t |-> "set", set]          XegerSet                       *)
(*   pattern    [t |-> "pat", ex]           XegerPattern                   *)
(*   expression [t |-> "expr", g, const, mult, lo, hi]  XegerExpression    *)
(***************************************************************************)

\* printable ASCII in code point order, 32..126 (code 96 is a placeholder)
AsciiTable ==
  <<" ", "!", "\"", "#", "$", "%", "&", "'", "(", ")", "*", "+", ",", "-",
    ".", "/", "0", "1", "2", "3", "4", "5", "6", "7", "8", "9", ":", ";",
    "<", "=", ">", "?", "@", "A", "B", "C", "D", "E", "F", "G", "H", "I",
    "J", "K", "L", "M", "N", "O", "P", "Q", "R", "S", "T", "U", "V", "W",
    "X", "Y", "Z", "[", "\\", "]", "^", "_", "(backtick)", "a", "b", "c", "d", "e",
    "f", "g", "h", "i", "j", "k", "l", "m", "n", "o", "p", "q", "r", "s",
    "t", "u", "v", "w", "x", "y", "z", "{", "|", "}", "~">>

\* ord(c)
Ord(c) == 31 + (CHOOSE i \in 1..Len(AsciiTable) : AsciiTable[i] = c)

\* chr(n)
Chr(n) == AsciiTable[n - 31]

char_range_past(a, b) ==
  [i \in 1..(Ord(b) - Ord(a) + 2) |-> Chr(Ord(a) + i - 1)]

\* XegerSet._char_range(a, b): [chr(c) for c in range(ord(a), ord(b)+1)]
char_range(a, b) ==
  LET range(lo, hi) == [i \in 1..(IF hi >= lo THEN hi - lo + 1 ELSE 0) |->
                          Chr(lo + i - 1)]
  IN  range(Ord(a), Ord(b))

reserved_chars == {"[", "]", "{", "}", "*", "+", "?"}

\* the default of XegerMultiplier's own max_random parameter
MULTIPLIER_MAX_RANDOM == 10

Raise(e) == [err |-> e]

\* int(s) for the strings of the model: an optional '-' and decimal digits
PyIntOk(s) ==
  \/ IsDigits(s)
  \/ (Len(s) >= 2 /\ s[1] = "-" /\ IsDigits(Tail(s)))

PyInt(s) == IF s[1] = "-" THEN 0 - IntOf(Tail(s)) ELSE IntOf(s)

\* XegerMultiplier._get_multiplier
RECURSIVE get_multiplier(_, _, _)
get_multiplier(regex, mult, started) ==
  IF regex = << >>
  THEN IF started THEN Raise("XegerError")
       ELSE [err |-> "none", is_random |-> FALSE, constant |-> 1,
             lo |-> 0, hi |-> 0, rest |-> regex]
  ELSE LET c == Head(regex)
           r == Tail(regex)
       IN  IF c = "{"
           THEN IF mult # << >> THEN Raise("XegerError")
                ELSE get_multiplier(r, mult, TRUE)
           ELSE IF c = "}"
           THEN IF mult # << >>
                THEN IF PyIntOk(mult)
                     THEN [err |-> "none", is_random |-> FALSE,
                           constant |-> PyInt(mult), lo |-> 0, hi |-> 0,
                           rest |-> r]
                     ELSE Raise("XegerError")
                ELSE Raise("XegerError")
           ELSE IF c \in {"*", "+", "?"}
           THEN IF started THEN Raise("XegerError")
                ELSE [err |-> "none", is_random |-> TRUE, constant |-> 0,
                      lo |-> IF c = "+" THEN 1 ELSE 0,
                      hi |-> IF c = "?" THEN 1 ELSE MULTIPLIER_MAX_RANDOM,
                      rest |-> r]
           ELSE IF started THEN get_multiplier(r, Append(mult, c), started)
           ELSE [err |-> "none", is_random |-> FALSE, constant |-> 1,
                 lo |-> 0, hi |-> 0, rest |-> regex]

XegerMultiplier(regex) == get_multiplier(regex, << >>, FALSE)

\* XegerSet._parse_set; ch1 = "" is Python's ch1 == ''
RECURSIVE parse_set(_, _, _)
parse_set(regex, select_list, ch1) ==
  IF regex = << >> THEN Raise("XegerError")
  ELSE LET c == Head(regex)
           r == Tail(regex)
       IN  IF c = "]"
           THEN IF ch1 # ""
                THEN IF select_list = << >>
                     THEN Raise("ValueError")  \* FastRandom(0, -1)
                     ELSE [err |-> "none",
                           node |-> [t |-> "set", set |-> select_list],
                           rest |-> r]
                ELSE Raise("XegerError")
           ELSE IF c = "-"
           THEN IF ch1 = "" THEN Raise("XegerError")
                ELSE IF r = << >> THEN Raise("XegerError")
                ELSE parse_set(Tail(r),
                               SubSeq(select_list, 1, Len(select_list) - 1)
                                 \o char_range(ch1, Head(r)),
                               ch1)
           ELSE IF c = "\\"
           THEN IF r = << >> THEN Raise("IndexError")
                ELSE parse_set(Tail(r), Append(select_list, Head(r)), Head(r))
           ELSE IF c \in reserved_chars THEN Raise("XegerError")
           ELSE parse_set(r, Append(select_list, c), c)

XegerSet(regex) == parse_set(regex, << >>, "")

\* XegerExpression._get_nested_pattern_input
RECURSIVE get_nested_pattern_input(_, _)
get_nested_pattern_input(regex, accum) ==
  IF regex = << >> THEN Raise("XegerError")
  ELSE LET c == Head(regex)
           r == Tail(regex)
       IN  IF c = "("
           THEN LET nested(inner) ==
                      IF inner.err # "none" THEN inner
                      ELSE get_nested_pattern_input(
                             inner.rest,
                             accum \o <<"(">> \o inner.accum \o <<")">>)
                IN  nested(get_nested_pattern_input(r, << >>))
           ELSE IF c = ")" THEN [err |-> "none", accum |-> accum, rest |-> r]
           ELSE get_nested_pattern_input(r, Append(accum, c))

XegerSequence(accum) == [t |-> "seq", s |-> accum]

with_multiplier_dropped(g, m) ==
  IF m.err # "none" THEN m
  ELSE [err |-> "none", multKind |-> "none", node |-> g, rest |-> m.rest]

\* XegerExpression._is_constant_multiplier applied to a generator and the
\* multiplier parsed after it; multKind "none" is _multiplier = None
with_multiplier(g, m) ==
  IF m.err # "none" THEN m
  ELSE IF ~m.is_random
  THEN IF m.constant = 1
       THEN [err |-> "none", multKind |-> "none", node |-> g, rest |-> m.rest]
       ELSE [err |-> "none", multKind |-> "const",
             node |-> [t |-> "expr", g |-> g, const |-> TRUE,
                       mult |-> m.constant, lo |-> 0, hi |-> 0],
             rest |-> m.rest]
  ELSE [err |-> "none", multKind |-> "random",
        node |-> [t |-> "expr", g |-> g, const |-> FALSE, mult |-> 0,
                  lo |-> m.lo, hi |-> m.hi],
        rest |-> m.rest]

no_multiplier(g, rest) ==
  [err |-> "none", multKind |-> "none", node |-> g, rest |-> rest]

RECURSIVE XegerPattern(_, _)
RECURSIVE get_generator(_, _, _)
\* XegerExpression._get_generator; the result's node is what
\* XegerPattern._parse_expressions appends (the bare generator when the
\* multiplier is None)
get_generator(regex, accum, max_random) ==
  IF regex = << >>
  THEN no_multiplier(XegerSequence(accum), regex)
  ELSE LET c == Head(regex)
           r == Tail(regex)
       IN  IF c = "("
           THEN IF accum = << >>
                THEN LET of_pattern(pat, rest) ==
                            IF pat.err # "none" THEN pat
                            ELSE with_multiplier(pat.node, XegerMultiplier(rest))
                          of_nested(nested) ==
                            IF nested.err # "none" THEN nested
                            ELSE of_pattern(XegerPattern(nested.accum, max_random),
                                            nested.rest)
                     IN  of_nested(get_nested_pattern_input(r, << >>))
                ELSE no_multiplier(XegerSequence(accum), regex)
           ELSE IF c = "["
           THEN IF accum = << >>
                THEN LET of_set(set) ==
                            IF set.err # "none" THEN set
                            ELSE with_multiplier(set.node, XegerMultiplier(set.rest))
                     IN  of_set(XegerSet(r))
                ELSE no_multiplier(XegerSequence(accum), regex)
           ELSE IF c = "\\"
           THEN IF r = << >> THEN Raise("IndexError")
                ELSE get_generator(Tail(r), Append(accum, Head(r)), max_random)
           ELSE IF c \in {"{", "*", "+", "?"}
           THEN IF Len(accum) = 1
                THEN with_multiplier(XegerSequence(accum), XegerMultiplier(regex))
                ELSE IF Len(accum) > 1
                THEN no_multiplier(
                       XegerSequence(SubSeq(accum, 1, Len(accum) - 1)),
                       <<accum[Len(accum)]>> \o regex)
                ELSE Raise("XegerError")
           ELSE get_generator(r, Append(accum, c), max_random)

RECURSIVE parse_expressions(_, _, _)
\* XegerPattern._parse_expressions
parse_expressions(regex_list, expressions, max_random) ==
  IF regex_list = << >>
  THEN [err |-> "none", node |-> [t |-> "pat", ex |-> expressions]]
  ELSE LET appended(e) ==
             IF e.err # "none" THEN e
             ELSE parse_expressions(e.rest, Append(expressions, e.node),
                                    max_random)
       IN  appended(get_generator(regex_list, << >>, max_random))

XegerPattern(regex, max_random) == parse_expressions(regex, << >>, max_random)

\* Xeger.__init__: a pattern of one expression is replaced by that
\* expression, whose generate() appends the same items
Xeger(regex, max_random) ==
  LET ring(p) ==
        IF p.err # "none" THEN p
        ELSE IF Len(p.node.ex) = 1 THEN [err |-> "none", node |-> p.node.ex[1]]
        ELSE p
  IN  ring(XegerPattern(regex, max_random))

(***************************************************************************)
(* Content generation.  generate(generated_content, length) appends items  *)
(* to a list and returns (new_item_count, length).  The model threads      *)
(*   c = [content, len, n, rnd, ok]                                        *)
(* where n counts the items appended, rnd is the list of the values the    *)
(* FastRandom rings will return next (an input of the operation) and ok    *)
(* is FALSE when that list was too short for this run.                     *)
(***************************************************************************)

\* FastRandom.rand() of a ring sampled from lo..hi: the next value
RandValue(c, lo, hi) == lo + (Head(c.rnd) % (hi - lo + 1))

RECURSIVE generate(_, _)
RECURSIVE generate_all(_, _)
RECURSIVE generate_times(_, _, _)
\* the four generate() methods: XegerSequence, XegerSet, XegerPattern and
\* XegerExpression
generate(node, c) ==
  IF ~c.ok THEN c
  ELSE IF node.t = "seq"
  THEN [c EXCEPT !.content = Append(@, node.s),
                 !.len = @ + Len(node.s),
                 !.n = @ + 1]
  ELSE IF node.t = "set"
  THEN IF c.rnd = << >> THEN [c EXCEPT !.ok = FALSE]
       ELSE [c EXCEPT !.content =
                        Append(@, <<node.set[RandValue(c, 0, Len(node.set) - 1) + 1]>>),
                      !.len = @ + 1,
                      !.n = @ + 1,
                      !.rnd = Tail(@)]
  ELSE IF node.t = "pat"
  THEN generate_all(node.ex, c)
  ELSE IF node.const
  THEN generate_times(node.g, node.mult, c)
  ELSE IF c.rnd = << >> THEN [c EXCEPT !.ok = FALSE]
  ELSE generate_times(node.g, RandValue(c, node.lo, node.hi),
                      [c EXCEPT !.rnd = Tail(@)])

\* for expression in self._expressions: expression.generate(...)
generate_all(ex, c) ==
  IF ex = << >> THEN c ELSE generate_all(Tail(ex), generate(Head(ex), c))

\* for x in xrange(mult): self._generator.generate(...)
generate_times(g, mult, c) ==
  IF mult <= 0 \/ ~c.ok THEN c
  ELSE generate_times(g, mult - 1, generate(g, c))

\* one call of a generate() method on (content, content_length)
Emission(node, content, len, rnd) ==
  generate(node, [content |-> content, len |-> len, n |-> 0, rnd |-> rnd,
                  ok |-> TRUE])

(***************************************************************************)
(* Trivial generators                                                      *)
(***************************************************************************)
\* SizeFSAlphaNumGen.CHARS = ascii_uppercase + digits + ascii_lowercase
CHARS ==
  <<"A", "B", "C", "D", "E", "F", "G", "H", "I", "J", "K", "L", "M", "N",
    "O", "P", "Q", "R", "S", "T", "U", "V", "W", "X", "Y", "Z", "0", "1",
    "2", "3", "4", "5", "6", "7", "8", "9", "a", "b", "c", "d", "e", "f",
    "g", "h", "i", "j", "k", "l", "m", "n", "o", "p", "q", "r", "s", "t",
    "u", "v", "w", "x", "y", "z">>

\* range(64 * 1024): the length of the alphanumeric buffer
NUM_CHARS == 65536

\* self.chars[i] (0-based) of the buffer sampled with the given seed:
\* random.choice(CHARS) for each position
AlphaChar(seed, i) == CHARS[((seed + 7 * i) % Len(CHARS)) + 1]

SizeFSZeroGen == [kind |-> "zeros", chars |-> <<"0">>]

SizeFSOneGen == [kind |-> "ones", chars |-> <<"1">>]

SizeFSAlphaNumGen(seed) == [kind |-> "alpha_num", seed |-> seed]

\* SizeFSGen.fill(fill) on the alphanumeric buffer: whole copies of the
\* buffer while fill > len(chars), then chars[0:fill]
fill(g, n) ==
  [i \in 1..(IF n < 0 THEN 0 ELSE n) |-> AlphaChar(g.seed, (i - 1) % NUM_CHARS)]

\* SizeFSGen.read
SizeFSGen_read(g, start, end) ==
  IF start <= end THEN Repeat(g.chars, end - start + 1) ELSE << >>

\* SizeFSAlphaNumGen.read
SizeFSAlphaNumGen_read(g, start, end) ==
  IF start <= end THEN fill(g, end - start) ELSE << >>

(***************************************************************************)
(* XegerGen                                                                *)
(***************************************************************************)
\* Python's None where the code passes a string or None
None == <<"(None)">>

\* XegerGen.__init__ once the four patterns are parsed (x.filler, x.padder,
\* x.prefix, x.suffix): the generator object, or the exception raised.
\* ok = FALSE: rnd was too short to materialise the prefix and suffix.
XegerGen_rings(size, has_prefix, has_suffix, x, rnd) ==
  LET raised(e) == [err |-> e, ok |-> TRUE, rnd |-> rnd]
      short == [err |-> "none", ok |-> FALSE, rnd |-> rnd]
      \* pc, sc: the prefix and the suffix generated once
      object(pc, sc, rnd2) ==
        [err |-> "none", ok |-> TRUE, rnd |-> rnd2,
         gen |-> [kind |-> "regex",
                  size |-> size,
                  end_last_read |-> 0,
                  remainder |-> << >>,
                  remainder_length |-> 0,
                  filler |-> x.filler.node,
                  padder |-> x.padder.node,
                  prefix |-> IF has_prefix THEN Join(pc.content) ELSE << >>,
                  prefix_length |-> IF has_prefix THEN pc.len ELSE 0,
                  suffix |-> IF has_suffix THEN Join(sc.content) ELSE << >>,
                  suffix_length |-> IF has_suffix THEN sc.len ELSE 0]]
      with_suffix(pc, rnd1) ==
        LET generated(sc) == IF ~sc.ok THEN short ELSE object(pc, sc, sc.rnd)
        IN  IF ~has_suffix THEN object(pc, pc, rnd1)
            ELSE IF x.suffix.err # "none" THEN raised(x.suffix.err)
            ELSE generated(Emission(x.suffix.node, << >>, 0, rnd1))
      with_prefix(pc) == IF ~pc.ok THEN short ELSE with_suffix(pc, pc.rnd)
  IN  IF x.filler.err # "none" THEN raised(x.filler.err)
      ELSE IF x.padder.err # "none" THEN raised(x.padder.err)
      ELSE IF ~has_prefix THEN with_suffix(short, rnd)
      ELSE IF x.prefix.err # "none" THEN raised(x.prefix.err)
      ELSE with_prefix(Emission(x.prefix.node, << >>, 0, rnd))

\* XegerGen.__init__
XegerGen(size, filler0, prefix0, suffix0, padder0, max_random, rnd) ==
  LET \* if filler == "" ... elif padder == "" ... elif prefix == "" ...
      filler == IF filler0 = << >> THEN None ELSE filler0
      padder == IF filler0 # << >> /\ padder0 = << >> THEN None ELSE padder0
      prefix == IF filler0 # << >> /\ padder0 # << >> /\ prefix0 = << >>
                THEN None ELSE prefix0
      suffix == IF /\ filler0 # << >> /\ padder0 # << >> /\ prefix0 # << >>
                   /\ suffix0 = << >>
                THEN None ELSE suffix0
      pattern == [filler |-> IF filler # None THEN filler ELSE <<"0">>,
                  padder |-> IF padder # None THEN padder ELSE <<"0">>,
                  prefix |-> prefix,
                  suffix |-> suffix]
  IN  XegerGen_rings(size, prefix # None, suffix # None,
                     [k \in DOMAIN pattern |-> Xeger(pattern[k], max_random)],
                     rnd)

\* while length < required: new_items, length = generate(content, length)
\* status "hang": an emission added nothing and drew no random value, so
\* the loop repeats the same step for ever.  new_items = -1: never bound.
RECURSIVE grab(_, _, _, _)
grab(node, c, new_items, required) ==
  IF ~c.ok THEN [c |-> c, new_items |-> new_items, status |-> "ok"]
  ELSE IF ~(c.len < required)
  THEN [c |-> c, new_items |-> new_items, status |-> "ok"]
  ELSE LET e == generate(node, [c EXCEPT !.n = 0])
       IN  IF e.ok /\ e.len = c.len /\ e.rnd = c.rnd
           THEN [c |-> e, new_items |-> e.n, status |-> "hang"]
           ELSE grab(node, e, e.n, required)

\* XegerGen._get_padding(size): ("".join(pad)[:size], size)
get_padding(g, size, rnd) ==
  LET padded(r) ==
        [pad |-> Slice(Join(r.c.content), 0, size), status |-> r.status,
         ok |-> r.c.ok, rnd |-> r.c.rnd]
  IN  padded(grab(g.padder,
                  [content |-> << >>, len |-> 0, n |-> 0, rnd |-> rnd,
                   ok |-> TRUE],
                  -1, size))

overrun_rest_none(overrun_content_string, this_time) == << >>

\* self._remainder = overrun_content_string[this_time:]
overrun_rest(overrun_content_string, this_time) ==
  Slice(overrun_content_string, this_time, Len(overrun_content_string))

\* XegerGen.read(start, end): [gen, ret, err, ok, rnd].  err is "none" or
\* the exception raised ("UnboundLocalError": new_items read before assignment);
\* "hang": the call does not return.
XegerGen_read(g0, start0, end0, rnd) ==
  LET end   == IF end0 > g0.size - 1 THEN g0.size - 1 ELSE end0
      start == IF start0 < 0 THEN 0 ELSE start0
      g1    == [g0 EXCEPT !.end_last_read = end]
      inPrefix   == start < g1.prefix_length
      sequential == ~inPrefix /\ start = g1.end_last_read + 1
      content0 == IF inPrefix THEN <<Slice(g1.prefix, start, Len(g1.prefix))>>
                  ELSE IF sequential THEN <<g1.remainder>>
                  ELSE << >>
      length0  == IF inPrefix THEN g1.prefix_length - start
                  ELSE IF sequential THEN g1.remainder_length
                  ELSE 0
      g2    == IF inPrefix \/ sequential
               THEN [g1 EXCEPT !.remainder = << >>, !.remainder_length = 0]
               ELSE g1
      chunk_size == (end + 1) - start
      last_required == end > (g2.size - g2.suffix_length)
      last  == Slice(g2.suffix, 0, g2.suffix_length + (end - (g2.size - 1)))
      still_required == IF last_required THEN chunk_size - Len(last)
                        ELSE chunk_size
      out(gen, ret, err, ok, r) ==
        [gen |-> gen, ret |-> ret, err |-> err, ok |-> ok, rnd |-> r]
      \* after the while loop
      filled(grabbed) ==
        LET content == grabbed.c.content
            content_length == grabbed.c.len
            new_items == grabbed.new_items
            overrun == content_length - still_required
            kept    == SubSeq(content, 1, Len(content) - new_items)
            overrun_content_string ==
              Join(SubSeq(content, Len(content) - new_items + 1, Len(content)))
            overrun_length == Len(overrun_content_string)
            this_time == overrun_length - overrun
            padded(padding) ==
              IF ~padding.ok THEN out(g2, << >>, "none", FALSE, rnd)
              ELSE IF padding.status = "hang"
              THEN out(g2, << >>, "hang", TRUE, rnd)
              ELSE out(g2,
                       Join(kept) \o padding.pad
                         \o (IF last_required THEN last ELSE << >>),
                       "none", TRUE, padding.rnd)
        IN  IF ~grabbed.c.ok THEN out(g2, << >>, "none", FALSE, rnd)
            ELSE IF grabbed.status = "hang" THEN out(g2, << >>, "hang", TRUE, rnd)
            ELSE IF content_length > still_required
            THEN IF new_items = -1 THEN out(g2, << >>, "UnboundLocalError", TRUE, rnd)
                 ELSE IF (end + overrun) > (g2.size - 1 - g2.suffix_length)
                 THEN padded(get_padding(g2,
                                         still_required
                                           - (content_length - overrun_length),
                                         grabbed.c.rnd))
                 ELSE out([g2 EXCEPT
                             !.remainder = overrun_rest(overrun_content_string,
                                                        this_time),
                             !.remainder_length = overrun_length - this_time],
                          Join(kept) \o Slice(overrun_content_string, 0, this_time),
                          "none", TRUE, grabbed.c.rnd)
            ELSE \* content_length == still_required
                 out(g2,
                     Join(content) \o (IF last_required THEN last ELSE << >>),
                     "none", TRUE, grabbed.c.rnd)
  IN  filled(grab(g2.filler,
                  [content |-> content0, len |-> length0, n |-> 0,
                   rnd |-> rnd, ok |-> TRUE],
                  -1, still_required))

(***************************************************************************)
(* SizefsFuse (sizefsFuse.py).  The object's dictionaries are functions:   *)
(*   st = [folders, files, xattrs, fd]                                     *)
(* An operation is an operator from st and its arguments to                *)
(*   [st, err, ret]                                                        *)
(* where err is "none" or the exception raised, and st is the state the    *)
(* call leaves behind (Python does not undo the assignments made before a  *)
(* raise).  env = [now, rnd, seed, first, skipped] carries what the call     *)
(* takes from its environment: the value of time(), the values the random  *)
(* rings return, the sample of an alphanumeric buffer, and the two choices *)
(* that dictionary iteration order leaves open.                            *)
(***************************************************************************)
Put(d, k, v) == [x \in DOMAIN d \cup {k} |-> IF x = k THEN v ELSE d[x]]

Del(d, k) == [x \in DOMAIN d \ {k} |-> d[x]]

\* d.get(k, default)
Get(d, k, default) == IF k \in DOMAIN d THEN d[k] ELSE default

EmptyDict == [x \in {} |-> 0]

Ok(st, ret) == [st |-> st, err |-> "none", ret |-> ret]

Fail(st, e) == [st |-> st, err |-> e, ret |-> None]

\* a list of the elements of a set, in one fixed order
RECURSIVE SeqOf(_)
SeqOf(S) ==
  IF S = {} THEN << >>
  ELSE LET x == CHOOSE y \in S : TRUE IN <<x>> \o SeqOf(S \ {x})

\* the order in which a loop over self.files.keys() meets the paths of
\* `targets`: those of env.first before the others
IterationOrder(targets, env) ==
  SeqOf(targets \cap env.first) \o SeqOf(targets \ env.first)

\* the canonical xattr name used by getxattr, setxattr and removexattr
CanonicalName(name) ==
  IF ~Contains(name, ".") /\ ~StartsWith(name, USER_PREFIX)
  THEN USER_PREFIX \o name
  ELSE name

\* SizefsFuse._file_attrs
file_attrs(m, env) ==
  [st_mode |-> "S_IFREG", st_nlink |-> 1, st_size |-> calculate_file_size(m),
   st_ctime |-> env.now, st_mtime |-> env.now, st_atime |-> env.now]

\* a faulty _update_mtime that leaves st_mtime alone (C10_SetxattrMtime
\* must not hold of it)
update_mtime_none(st, path, env) == st

\* SizefsFuse._update_mtime
update_mtime(st, path, env) ==
  IF path \in DOMAIN st.folders
  THEN [st EXCEPT !.folders[path].st_mtime = env.now]
  ELSE IF path \in DOMAIN st.files
  THEN [st EXCEPT !.files[path].attrs.st_mtime = env.now]
  ELSE st

\* a faulty _create_generator that ignores user.generator
\* (C11_GeneratorSelection must not hold of it)
create_generator_zeros(st, path, size_bytes, env) == Ok(st, SizeFSZeroGen)

\* SizefsFuse._create_generator: ret is the generator
create_generator(st, path, size_bytes, env) ==
  LET xa == st.xattrs[path]
      generator == Get(xa, K_GENERATOR, None)
      max_random == Get(xa, K_MAX_RANDOM, DEFAULT_MAX_RANDOM)
      regex(genr) ==
        IF genr.err # "none" THEN Fail(st, genr.err)
        ELSE IF ~genr.ok THEN Fail(st, "rnd")
        ELSE Ok(st, genr.gen)
  IN  IF path \notin DOMAIN st.xattrs THEN Fail(st, "KeyError")
      ELSE IF generator = ALPHA_NUM THEN Ok(st, SizeFSAlphaNumGen(env.seed))
      ELSE IF generator = ZEROS THEN Ok(st, SizeFSZeroGen)
      ELSE IF generator = ONES THEN Ok(st, SizeFSOneGen)
      ELSE IF generator = REGEX
      THEN IF ~PyIntOk(max_random) THEN Fail(st, "ValueError")
           ELSE regex(XegerGen(size_bytes, Get(xa, K_FILLER, None),
                               Get(xa, K_PREFIX, None), Get(xa, K_SUFFIX, None),
                               Get(xa, K_PADDER, None), PyInt(max_random),
                               env.rnd))
      ELSE Ok([st EXCEPT !.xattrs[path] = Put(@, K_GENERATOR, ONES)],
              SizeFSOneGen)

\* a faulty rebuild that also resets the file's size (C8_SizeFromBasename
\* must not hold of it)
rebuild_generator_resizing(st, path, env) ==
  Ok([st EXCEPT !.files[path].attrs.st_size = 0,
                !.files[path].generator = SizeFSOneGen], None)

\* the tail of setxattr and removexattr for a path in self.files:
\* self.files[path]['generator'] = self._create_generator(path, size_bytes)
rebuild_generator(st, path, env) ==
  LET assign(g) ==
        IF g.err # "none" THEN Fail(g.st, g.err)
        ELSE Ok([g.st EXCEPT !.files[path].generator = g.ret], None)
  IN  assign(create_generator(st, path, st.files[path].attrs.st_size, env))

\* a faulty files_to_update that finds no file (C5_DirSetxattrChanged must
\* not hold of it)
files_to_update_none(st, path) == {}

\* [filename for filename in self.files.keys() if filename.startswith(path)]
files_to_update(st, path) == {f \in DOMAIN st.files : StartsWith(f, path)}

RECURSIVE setxattr(_, _, _, _, _)
RECURSIVE setxattr_each(_, _, _, _, _)
\* SizefsFuse.setxattr
setxattr(st, path, name0, value, env) ==
  LET name == CanonicalName(name0)
  IN  IF path \notin DOMAIN st.xattrs THEN Fail(st, "ENOENT")
      ELSE IF name \in DOMAIN st.xattrs[path] /\ value = st.xattrs[path][name]
      THEN Ok(st, None)
      ELSE LET st1 == update_mtime(st, path, env)
               st2 == [st1 EXCEPT !.xattrs[path] = Put(@, name, value)]
           IN  IF path \in DOMAIN st2.folders
               THEN setxattr_each(st2, IterationOrder(files_to_update(st2, path), env),
                                  name, value, env)
               ELSE IF path \in DOMAIN st2.files
               THEN rebuild_generator(st2, path, env)
               ELSE Ok(st2, None)

\* for file in files_to_update: self.setxattr(file, name, value, ...)
setxattr_each(st, todo, name, value, env) ==
  IF todo = << >> THEN Ok(st, None)
  ELSE LET next(r) ==
             IF r.err # "none" THEN r
             ELSE setxattr_each(r.st, Tail(todo), name, value, env)
       IN  next(setxattr(st, Head(todo), name, value, env))

RECURSIVE removexattr(_, _, _, _)
RECURSIVE removexattr_each(_, _, _, _)
\* SizefsFuse.removexattr
removexattr(st, path, name0, env) ==
  LET name == CanonicalName(name0)
  IN  IF path \notin DOMAIN st.xattrs THEN Fail(st, "KeyError")
      ELSE IF name \notin DOMAIN st.xattrs[path] THEN Fail(st, "ENODATA")
      ELSE LET st1 == [st EXCEPT !.xattrs[path] = Del(@, name)]
               st2 == update_mtime(st1, path, env)
           IN  IF path \in DOMAIN st2.folders
               THEN removexattr_each(st2,
                                     IterationOrder(files_to_update(st2, path), env),
                                     name, env)
               ELSE IF path \in DOMAIN st2.files
               THEN rebuild_generator(st2, path, env)
               ELSE Ok(st2, None)

\* for file in files_to_update: self.removexattr(file, name)
removexattr_each(st, todo, name, env) ==
  IF todo = << >> THEN Ok(st, None)
  ELSE LET next(r) ==
             IF r.err # "none" THEN r
             ELSE removexattr_each(r.st, Tail(todo), name, env)
       IN  next(removexattr(st, Head(todo), name, env))

\* a faulty create that copies no xattr from the folder
\* (C12_CreateCopiesXattrs must not hold of it)
create_setxattrs_none(st, path, keys, folder_xattrs, env) == Ok(st, None)

\* the run of self.setxattr(path, key, value) calls in create, for the
\* keys the folder has set, then user.max_random
RECURSIVE create_setxattrs(_, _, _, _, _)
create_setxattrs(st, path, keys, folder_xattrs, env) ==
  LET key == IF keys = << >> THEN K_MAX_RANDOM ELSE Head(keys)
      value == IF keys = << >>
               THEN Get(folder_xattrs, K_MAX_RANDOM, DEFAULT_MAX_RANDOM)
               ELSE folder_xattrs[key]
      next(r) ==
        IF keys = << >> \/ r.err # "none" THEN r
        ELSE create_setxattrs(r.st, path, Tail(keys), folder_xattrs, env)
  IN  IF keys # << >> /\ key \notin DOMAIN folder_xattrs
      THEN create_setxattrs(st, path, Tail(keys), folder_xattrs, env)
      ELSE next(setxattr(st, path, key, value, env))

\* the tail of create, from the generator built for the new file:
\* self.files[path] = {'attrs': ..., 'generator': ...}; self.fd += 1
create_stored(path, attrs, g) ==
  LET opened(st2) == Ok(st2, st2.fd)
  IN  IF g.err # "none" THEN Fail(g.st, g.err)
      ELSE opened([g.st EXCEPT !.files =
                     Put(@, path, [attrs |-> attrs, generator |-> g.ret]),
                               !.fd = @ + 1])

\* create, from the xattrs copied from the folder
create_generated(path, attrs, r, env) ==
  IF r.err # "none" THEN Fail(r.st, r.err)
  ELSE create_stored(path, attrs,
                     create_generator(r.st, path, attrs.st_size, env))

\* SizefsFuse.create: ret is the file descriptor
create(st, path, env) ==
  LET folder   == PathSplit(path)[1]
      filename == PathSplit(path)[2]
      st1      == [st EXCEPT !.xattrs = Put(@, path, EmptyDict)]
      matched(m) ==
        IF ~m.matched THEN Fail(st, "EPERM")
        ELSE IF folder \notin DOMAIN st.xattrs THEN Fail(st, "KeyError")
        ELSE create_generated(
               path, file_attrs(m, env),
               create_setxattrs(st1, path,
                                <<K_GENERATOR, K_FILLER, K_PREFIX, K_SUFFIX,
                                  K_PADDER>>,
                                st.xattrs[folder], env),
               env)
  IN  IF folder \notin DOMAIN st.folders THEN Fail(st, "EPERM")
      ELSE matched(FILE_REGEX_match(filename))

\* the generator's read(start, end): [gen, ret, err, ok]
generator_read(g, start, end, env) ==
  IF g.kind = "regex" THEN XegerGen_read(g, start, end, env.rnd)
  ELSE IF g.kind = "alpha_num"
  THEN [gen |-> g, ret |-> SizeFSAlphaNumGen_read(g, start, end),
        err |-> "none", ok |-> TRUE]
  ELSE [gen |-> g, ret |-> SizeFSGen_read(g, start, end), err |-> "none",
        ok |-> TRUE]

\* SizefsFuse.read for a path in self.files
read_file(st, path, size, offset, env) ==
  LET size_bytes == st.files[path].attrs.st_size
      end_of_content == IF offset + size - 1 < size_bytes - 1
                        THEN offset + size - 1 ELSE size_bytes - 1
      returned(r) ==
        LET st1 == [st EXCEPT !.files[path].generator = r.gen]
        IN  IF ~r.ok THEN Fail(st, "rnd")
            ELSE IF r.err # "none" THEN Fail(st1, r.err)
            ELSE Ok(st1, r.ret)
  IN  IF offset > (size_bytes - 1) THEN Ok(st, << >>)
      ELSE returned(generator_read(st.files[path].generator, offset,
                                   end_of_content, env))

\* SizefsFuse.read: an unknown path is created, then read
read(st, path, size, offset, env) ==
  LET present(c) ==
        IF c.err # "none" THEN Fail(c.st, c.err)
        ELSE read_file(c.st, path, size, offset, env)
  IN  present(IF path \in DOMAIN st.files THEN Ok(st, None)
              ELSE create(st, path, env))

\* a faulty open that hands out the counter without advancing it
\* (C13_FdMonotonic must not hold of it)
open_same_fd(st, path) ==
  IF path \notin DOMAIN st.files THEN Fail(st, "ENOENT") ELSE Ok(st, st.fd)

\* SizefsFuse.open
open(st, path) ==
  IF path \notin DOMAIN st.files THEN Fail(st, "ENOENT")
  ELSE Ok([st EXCEPT !.fd = @ + 1], st.fd + 1)

\* a faulty getattr without the `folder == "/"` refusal
\* (C9_FilesCreatedInDirectories must not hold of it)
getattr_root(st, path, env) ==
  LET created(c) ==
        IF c.err = "EPERM" THEN Fail(c.st, "ENOENT")
        ELSE IF c.err # "none" THEN Fail(c.st, c.err)
        ELSE Ok(c.st, c.st.files[path].attrs)
  IN  IF path \in DOMAIN st.folders THEN Ok(st, st.folders[path])
      ELSE IF path \in DOMAIN st.files THEN Ok(st, st.files[path].attrs)
      ELSE created(create(st, path, env))

\* SizefsFuse.getattr
getattr(st, path, env) ==
  LET folder   == PathSplit(path)[1]
      filename == PathSplit(path)[2]
      parent_folder == PathSplit(folder)[1]
      created(c) ==
        IF c.err = "EPERM" THEN Fail(c.st, "ENOENT")
        ELSE IF c.err # "none" THEN Fail(c.st, c.err)
        ELSE IF path \in DOMAIN c.st.folders THEN Ok(c.st, c.st.folders[path])
        ELSE Ok(c.st, c.st.files[path].attrs)
  IN  IF path \in DOMAIN st.folders THEN Ok(st, st.folders[path])
      ELSE IF path \in DOMAIN st.files THEN Ok(st, st.files[path].attrs)
      ELSE IF filename = <<".">>
      THEN IF folder \in DOMAIN st.folders THEN Ok(st, st.folders[folder])
           ELSE Fail(st, "ENOENT")
      ELSE IF filename = <<".", ".">>
      THEN IF parent_folder \in DOMAIN st.folders
           THEN Ok(st, st.folders[parent_folder])
           ELSE Fail(st, "ENOENT")
      ELSE IF folder = ROOT THEN Fail(st, "ENOENT")
      ELSE created(create(st, path, env))

\* SizefsFuse.getxattr; a path without an xattr map falls off the end of
\* the function and returns None
getxattr(st, path, name0) ==
  LET name == CanonicalName(name0)
  IN  IF path \in DOMAIN st.xattrs
      THEN IF name \in DOMAIN st.xattrs[path] THEN Ok(st, st.xattrs[path][name])
           ELSE IF StartsWith(name, <<"c", "o", "m", ".", "a", "p", "p", "l", "e", ".">>)
           THEN Fail(st, "ENOTSUP")
           ELSE Fail(st, "ENODATA")
      ELSE Ok(st, None)

\* SizefsFuse.listxattr: xa if xa.startswith('user.') else xa[5:]
listxattr(st, path) ==
  LET path_xattrs == Get(st.xattrs, path, EmptyDict)
      shown(xa) == IF StartsWith(xa, USER_PREFIX) THEN xa
                   ELSE Slice(xa, 5, Len(xa))
  IN  Ok(st, [i \in 1..Cardinality(DOMAIN path_xattrs) |->
                shown(SeqOf(DOMAIN path_xattrs)[i])])

\* SizefsFuse.mkdir
mkdir(st, path, env) ==
  LET parent == PathSplit(path)[1]
      st1 == [st EXCEPT
                !.folders = Put(@, path,
                                [st_mode |-> "S_IFDIR", st_nlink |-> 2,
                                 st_size |-> 0, st_ctime |-> env.now,
                                 st_mtime |-> env.now, st_atime |-> env.now]),
                !.xattrs = Put(@, path, [k \in {K_GENERATOR} |-> ONES])]
  IN  IF parent # ROOT THEN Fail(st, "EPERM")
      ELSE IF ROOT \notin DOMAIN st1.folders THEN Fail(st1, "KeyError")
      ELSE Ok([st1 EXCEPT !.folders[ROOT].st_nlink = @ + 1], None)

\* SizefsFuse.readdir: '.', '..', then the entries
readdir(st, path, env) ==
  LET subfolders == {f \in DOMAIN st.folders :
                       f # ROOT /\ PathSplit(f)[1] = path}
      rootfiles  == {f \in DOMAIN st.files : PathSplit(f)[1] = ROOT}
      under      == {f \in DOMAIN st.files : StartsWith(f, path)}
      names(fs)  == [i \in 1..Len(fs) |-> PathSplit(fs[i])[2]]
  IN  IF path = ROOT
      THEN Ok(st, <<<<".">>, <<".", ".">>>>
                    \o names(IterationOrder(subfolders, env))
                    \o names(IterationOrder(rootfiles, env)))
      ELSE Ok(st, <<<<".">>, <<".", ".">>>> \o names(IterationOrder(under, env)))

\* SizefsFuse.rename.  The loop `for file in self.files` pops and inserts
\* keys of the dictionary it iterates; the entries it then fails to visit
\* (env.skipped) stay where they are.
rename(st, old, new, env) ==
  LET matching == {f \in DOMAIN st.files : PathSplit(f)[1] = old}
      moved    == matching \ env.skipped
      new_path(f) == PathJoin(new, PathSplit(f)[2])
      kept     == DOMAIN st.files \ moved
      targets  == {new_path(f) : f \in moved}
      source(p) == CHOOSE f \in moved : new_path(f) = p
      st1 == [st EXCEPT
                !.folders = Put(Del(@, old), new, st.folders[old]),
                !.files = [p \in kept \cup targets |->
                             IF p \in targets THEN st.files[source(p)]
                             ELSE st.files[p]]]
  IN  IF old \in DOMAIN st.folders
      THEN IF new \in DOMAIN st.folders THEN Fail(st, "EPERM")
           ELSE IF old \in DOMAIN st1.files THEN Fail(st1, "EPERM")
           ELSE Fail(st1, "ENOENT")
      ELSE IF old \in DOMAIN st.files THEN Fail(st, "EPERM")
      ELSE Fail(st, "ENOENT")

\* SizefsFuse.rmdir
rmdir(st, path) ==
  LET st1 == [st EXCEPT !.folders = Del(@, path)]
      st2 == [st1 EXCEPT !.xattrs = Del(@, path)]
  IN  IF path \notin DOMAIN st.folders THEN Fail(st, "ENOENT")
      ELSE IF \E f \in DOMAIN st.files : PathSplit(f)[1] = path
      THEN Fail(st, "ENOTEMPTY")
      ELSE IF path \notin DOMAIN st.xattrs THEN Fail(st1, "KeyError")
      ELSE IF ROOT \notin DOMAIN st2.folders THEN Fail(st2, "KeyError")
      ELSE Ok([st2 EXCEPT !.folders[ROOT].st_nlink = @ - 1], None)

\* SizefsFuse.unlink
unlink(st, path) ==
  LET st1 == [st EXCEPT !.files = Del(@, path)]
  IN  IF path \notin DOMAIN st.files THEN Fail(st, "ENOENT")
      ELSE IF path \notin DOMAIN st.xattrs THEN Fail(st1, "KeyError")
      ELSE Ok([st1 EXCEPT !.xattrs = Del(@, path)], None)

\* a faulty refusal that allocates a descriptor before raising
\* (C18_AlwaysRefused must not hold of it)
refuse_counting(st) == Fail([st EXCEPT !.fd = @ + 1], "EPERM")

\* chmod, chown, symlink, truncate, write: raise FuseOSError(EPERM)
refuse(st) == Fail(st, "EPERM")

\* a faulty _add_default_files that adds no file
\* (C23_InitialLayout must not hold of it)
add_default_files_none(st, path, names, env) == st

\* SizefsFuse._add_default_files
RECURSIVE add_default_files(_, _, _, _)
add_default_files(st, path, names, env) ==
  IF names = << >> THEN st
  ELSE add_default_files(create(st, PathJoin(path, Head(names)), env).st,
                         path, Tail(names), env)

\* the default directories of __init__: mkdir, setxattr, _add_default_files
RECURSIVE default_dirs(_, _, _)
default_dirs(st, generators, env) ==
  IF generators = << >> THEN st
  ELSE LET path == ROOT \o Head(generators)
       IN  default_dirs(
             add_default_files(
               setxattr(mkdir(st, path, env).st, path, K_GENERATOR,
                        Head(generators), env).st,
               path, default_files, env),
             Tail(generators), env)

\* SizefsFuse.__init__
SizefsFuse(env) ==
  LET st0 == [folders |-> [p \in {ROOT} |->
                             [st_mode |-> "S_IFDIR", st_ctime |-> env.now,
                              st_mtime |-> env.now, st_atime |-> env.now,
                              st_nlink |-> 0]],
              files |-> EmptyDict,
              xattrs |-> [p \in {ROOT} |-> EmptyDict],
              fd |-> 0]
  IN  default_dirs(st0, <<ZEROS, ONES, ALPHA_NUM>>, env)

(***************************************************************************)
(* The state machine: one SizefsFuse object and the calls made on it       *)
(***************************************************************************)
\* folders, files, xattrs, fd: the object's fields; now: the clock, one tick
\* per call; last: the last call made, its arguments and its outcome;
\* xg: an XegerGen object read on its own (see SpecGen below)
VARIABLES folders, files, xattrs, fd, now, last, xg

vars == <<folders, files, xattrs, fd, now, last, xg>>

\* the object's state as the operators take it
State == [folders |-> folders, files |-> files, xattrs |-> xattrs, fd |-> fd]

\* bounds of the model: the number of calls made on the object, and the
\* largest size and offset passed to read
MaxOps == 2

MaxRead == 2

\* the number of calls made on the object when only the calls that change
\* the namespace are made
MaxNameOps == 3

\* the number of calls made on the object when only the xattr calls are made
MaxXattrOps == 3

\* the number of files created when file names are drawn from the size
\* grammar and its neighbourhood
MaxSizeOps == 2

\* inputs of the calls
D_zeros == ROOT \o ZEROS

D_ones == ROOT \o ONES

D_alpha_num == ROOT \o ALPHA_NUM

\* a directory name that is a string prefix of "/zeros"
D_z == <<"/", "z">>

N_2B == <<"2", "B">>

F_root_1B == <<"/", "1", "B">>

F_zeros_100K == PathJoin(D_zeros, default_files[1])

F_zeros_2B == PathJoin(D_zeros, N_2B)

F_alpha_2B == PathJoin(D_alpha_num, N_2B)

F_z_2B == PathJoin(D_z, N_2B)

\* a path two levels under the root
D_z_y == D_z \o <<"/", "y">>

V_ab == <<"a", "b">>

\* xattr names as callers pass them: without the user. prefix, and with a
\* dot but no user. prefix
N_generator == <<"g", "e", "n", "e", "r", "a", "t", "o", "r">>

N_a_b == <<"a", ".", "b">>

\* two samples of the alphanumeric buffer
Seeds == {0, 1}

Env(rnd, seed, first, skipped) ==
  [now |-> now + 1, rnd |-> rnd, seed |-> seed, first |-> first,
   skipped |-> skipped]

Env0(seed) == [now |-> 0, rnd |-> << >>, seed |-> seed, first |-> {},
               skipped |-> {}]

NoArgs == [path |-> None, name |-> None, value |-> None, size |-> 0,
           offset |-> 0, new |-> None]

\* no XegerGen object under study
NoGen == [n |-> 0]

\* the call returned or raised: its effect on the object and its outcome
Done(op, args, r) ==
  /\ r.err # "rnd"
  /\ folders' = r.st.folders
  /\ files' = r.st.files
  /\ xattrs' = r.st.xattrs
  /\ fd' = r.st.fd
  /\ now' = now + 1
  /\ last' = [op |-> op, err |-> r.err, ret |-> r.ret] @@ args @@ NoArgs
  /\ xg' = xg

\* calls are made while the clock is below the bound
Live == now < MaxOps

Init ==
  \E seed \in Seeds :
    LET constructed(st) ==
          /\ folders = st.folders
          /\ files = st.files
          /\ xattrs = st.xattrs
          /\ fd = st.fd
          /\ now = 0
          /\ last = [op |-> "init", err |-> "none", ret |-> None] @@ NoArgs
          /\ xg = NoGen
    IN  constructed(SizefsFuse(Env0(seed)))

\* the orders a propagating call may meet the files in: any one file first,
\* when the order makes a difference (a call on a directory that raises
\* part-way)
Firsts(path, r0) ==
  IF r0.err = "none" \/ path \notin DOMAIN folders THEN {{}}
  ELSE {{}} \cup {{f} : f \in files_to_update(State, path)}

\* the samples an alphanumeric buffer built by the call may get: the call
\* builds one only for a path whose user.generator is, or becomes, alpha_num
SeedsFor(paths, value) ==
  IF \/ value = ALPHA_NUM
     \/ \E p \in paths \cap DOMAIN xattrs :
          Get(xattrs[p], K_GENERATOR, None) = ALPHA_NUM
  THEN Seeds ELSE {0}

\* the files rename may leave behind, see rename
Skips(old) ==
  LET matching == {f \in DOMAIN files : PathSplit(f)[1] = old}
  IN  {{}} \cup {{f} : f \in {g \in matching : matching # {g}}}

Mkdir ==
  /\ Live
  /\ \E path \in {D_z, F_root_1B, F_z_2B} :
       Done("mkdir", [path |-> path], mkdir(State, path, Env(<< >>, 0, {}, {})))

Rmdir ==
  /\ Live
  /\ \E path \in {D_z, D_zeros, F_root_1B} :
       Done("rmdir", [path |-> path], rmdir(State, path))

Rename ==
  /\ Live
  /\ \E old \in {D_zeros, D_z, F_zeros_100K}, new \in {D_z, D_ones} :
       \E skipped \in Skips(old) :
         Done("rename", [path |-> old, new |-> new],
              rename(State, old, new, Env(<< >>, 0, {}, skipped)))

Create ==
  /\ Live
  /\ \E path \in {F_zeros_2B, F_alpha_2B, F_root_1B, F_z_2B, F_zeros_100K, D_zeros} :
       \E seed \in SeedsFor({path, PathSplit(path)[1]}, None) :
         Done("create", [path |-> path],
              create(State, path, Env(<< >>, seed, {}, {})))

Unlink ==
  /\ Live
  /\ \E path \in {F_zeros_100K, F_root_1B} :
       Done("unlink", [path |-> path], unlink(State, path))

Open ==
  /\ Live
  /\ \E path \in {F_zeros_100K, F_zeros_2B} :
       Done("open", [path |-> path], open(State, path))

Read ==
  /\ Live
  /\ \E path \in {F_zeros_2B, F_alpha_2B, F_zeros_100K},
        size \in 0..MaxRead, offset \in 0..MaxRead :
       \E seed \in (IF path \in DOMAIN files THEN {0}
                    ELSE SeedsFor({PathSplit(path)[1]}, None)) :
         Done("read", [path |-> path, size |-> size, offset |-> offset],
              read(State, path, size, offset, Env(<< >>, seed, {}, {})))

Getattr ==
  /\ Live
  /\ \E path \in {F_root_1B, F_zeros_2B, D_zeros, F_z_2B} :
       Done("getattr", [path |-> path],
            getattr(State, path, Env(<< >>, 0, {}, {})))

Getxattr ==
  /\ Live
  /\ \E path \in {D_zeros, F_zeros_100K, F_zeros_2B},
        name \in {K_GENERATOR, K_FILLER} :
       Done("getxattr", [path |-> path, name |-> name],
            getxattr(State, path, name))

Setxattr ==
  /\ Live
  /\ \E path \in {D_zeros, D_z, F_zeros_100K},
        name \in {K_GENERATOR, K_MAX_RANDOM},
        value \in {ZEROS, REGEX, V_ab} :
       \E seed \in SeedsFor({path} \cup files_to_update(State, path), value),
          first \in Firsts(path, setxattr(State, path, name, value,
                                          Env(<< >>, 0, {}, {}))) :
         Done("setxattr", [path |-> path, name |-> name, value |-> value],
              setxattr(State, path, name, value, Env(<< >>, seed, first, {})))

Removexattr ==
  /\ Live
  /\ \E path \in {D_zeros, D_z, F_zeros_100K},
        name \in {K_GENERATOR, K_MAX_RANDOM} :
       \E seed \in SeedsFor({path} \cup files_to_update(State, path), None),
          first \in Firsts(path, removexattr(State, path, name,
                                             Env(<< >>, 0, {}, {}))) :
         Done("removexattr", [path |-> path, name |-> name],
              removexattr(State, path, name, Env(<< >>, seed, first, {})))

Refuse ==
  /\ Live
  /\ \E op \in {"chmod", "chown", "symlink", "truncate", "write"} :
       Done(op, [path |-> F_zeros_100K], refuse(State))

Next ==
  \/ Mkdir
  \/ Rmdir
  \/ Rename
  \/ Create
  \/ Unlink
  \/ Open
  \/ Read
  \/ Getattr
  \/ Getxattr
  \/ Setxattr
  \/ Removexattr
  \/ Refuse

Spec == Init /\ [][Next]_vars

(***************************************************************************)
(* The calls that change the namespace, on paths that are directories,     *)
(* files, both or neither, the root and a path two levels under the root   *)
(* included.                                                               *)
(***************************************************************************)
NamesLive == now < MaxNameOps

NamesMkdir ==
  /\ NamesLive
  /\ \E path \in {D_z, F_root_1B} :
       Done("mkdir", [path |-> path], mkdir(State, path, Env(<< >>, 0, {}, {})))

NamesRmdir ==
  /\ NamesLive
  /\ \E path \in {D_z, D_z_y, ROOT} :
       Done("rmdir", [path |-> path], rmdir(State, path))

NamesRename ==
  /\ NamesLive
  /\ \E old \in {D_z, F_root_1B, D_zeros}, new \in {D_z_y, D_ones} :
       \E skipped \in Skips(old) :
         Done("rename", [path |-> old, new |-> new],
              rename(State, old, new, Env(<< >>, 0, {}, skipped)))

NamesCreate ==
  /\ NamesLive
  /\ \E path \in {F_root_1B, F_z_2B} :
       \E seed \in SeedsFor({path, PathSplit(path)[1]}, None) :
         Done("create", [path |-> path],
              create(State, path, Env(<< >>, seed, {}, {})))

NamesRead ==
  /\ NamesLive
  /\ \E path \in {F_z_2B, F_root_1B} :
       \E seed \in (IF path \in DOMAIN files THEN {0}
                    ELSE SeedsFor({PathSplit(path)[1]}, None)) :
         Done("read", [path |-> path, size |-> 2, offset |-> 0],
              read(State, path, 2, 0, Env(<< >>, seed, {}, {})))

\* readdir meets the entries in the order of the dictionary: any one entry
\* first
NamesReaddir ==
  /\ NamesLive
  /\ \E path \in {ROOT, D_z, D_zeros} :
       \E first \in {{}} \cup {{f} : f \in DOMAIN folders \cup DOMAIN files} :
         Done("readdir", [path |-> path],
              readdir(State, path, Env(<< >>, 0, first, {})))

NextNames ==
  \/ NamesMkdir
  \/ NamesRmdir
  \/ NamesRename
  \/ NamesCreate
  \/ NamesRead
  \/ NamesReaddir

SpecNames == Init /\ [][NextNames]_vars

(***************************************************************************)
(* The xattr calls, with names given with and without the user. prefix.    *)
(***************************************************************************)
XattrsLive == now < MaxXattrOps

XattrsSet ==
  /\ XattrsLive
  /\ \E path \in {D_zeros, F_zeros_100K},
        name \in {N_generator, K_GENERATOR, N_a_b},
        value \in {ZEROS, V_ab} :
       \E seed \in SeedsFor({path} \cup files_to_update(State, path), value),
          first \in Firsts(path, setxattr(State, path, name, value,
                                          Env(<< >>, 0, {}, {}))) :
         Done("setxattr", [path |-> path, name |-> name, value |-> value],
              setxattr(State, path, name, value, Env(<< >>, seed, first, {})))

XattrsGet ==
  /\ XattrsLive
  /\ \E path \in {D_zeros, F_zeros_100K},
        name \in {N_generator, K_GENERATOR, N_a_b} :
       Done("getxattr", [path |-> path, name |-> name],
            getxattr(State, path, name))

XattrsRemove ==
  /\ XattrsLive
  /\ \E path \in {D_zeros, F_zeros_100K},
        name \in {N_generator, K_GENERATOR, N_a_b} :
       \E seed \in SeedsFor({path} \cup files_to_update(State, path), None),
          first \in Firsts(path, removexattr(State, path, name,
                                             Env(<< >>, 0, {}, {}))) :
         Done("removexattr", [path |-> path, name |-> name],
              removexattr(State, path, name, Env(<< >>, seed, first, {})))

\* the settings that make a file a Xeger file, and values no generator can
\* be built from: a pattern with an unmatched (, a max_random that is not a
\* number
RegexSettings ==
  {<<K_GENERATOR, REGEX>>, <<K_FILLER, V_ab>>, <<K_FILLER, <<"(", "a">>>>,
   <<K_MAX_RANDOM, <<"x">>>>}

XattrsSetRegex ==
  /\ XattrsLive
  /\ \E setting \in RegexSettings :
       Done("setxattr",
            [path |-> F_zeros_100K, name |-> setting[1], value |-> setting[2]],
            setxattr(State, F_zeros_100K, setting[1], setting[2],
                     Env(<< >>, 0, {}, {})))

NextXattrs ==
  \/ XattrsSet
  \/ XattrsGet
  \/ XattrsRemove
  \/ XattrsSetRegex

SpecXattrs == Init /\ [][NextXattrs]_vars

(***************************************************************************)
(* create, on file names put together from a number, a unit and an         *)
(* optional shift, well formed or not.                                     *)
(***************************************************************************)
\* the number of a name: its text and its value in tenths
SizeNumbers ==
  {[text |-> <<"1">>, tenths |-> 10],
   [text |-> <<"1", ".", "5">>, tenths |-> 15],
   [text |-> <<"3", "2", ".", "3">>, tenths |-> 323],
   [text |-> << >>, tenths |-> 0]}

\* the shift of a name: none, or an operator character, a number and a unit
SizeShifts ==
  {[sign |-> "", text |-> << >>, value |-> 0, unit |-> "B"]}
    \cup [sign : {"+", "-", "|"}, text : {<<"2">>}, value : {2},
          unit : {"B", "K"}]

SizeInputs == [num : SizeNumbers, unit : {"B", "K", "X"}, shift : SizeShifts]

\* the file name of an input
NameOf(in) ==
  in.num.text \o <<in.unit>>
    \o (IF in.shift.sign = "" THEN << >>
        ELSE <<in.shift.sign>> \o in.shift.text \o <<in.shift.unit>>)

SizesLive == now < MaxSizeOps

SizesCreate ==
  /\ SizesLive
  /\ \E in \in SizeInputs :
       Done("create", [path |-> PathJoin(D_zeros, NameOf(in))],
            create(State, PathJoin(D_zeros, NameOf(in)),
                   Env(<< >>, 0, {}, {})))

NextSizes == SizesCreate

SpecSizes == Init /\ [][NextSizes]_vars

(***************************************************************************)
(* An XegerGen object on its own: constructed from patterns drawn from     *)
(* small sets, then read over ranges of its content.                       *)
(***************************************************************************)
\* bounds: the number of reads made on the object, its largest size, and
\* the number of values one read may draw from the random rings
MaxGenReads == 2

MaxSize == 6

MaxDraws == 3

GenSizes == {MaxSize - 1, MaxSize}

P_ab == <<"a", "b">>

\* one of a, b: a ring that draws a random value for every byte
P_set == <<"[", "a", "b", "]">>

GenFillers == {None, P_ab, P_set}

GenPrefixes == {None, <<"X">>, <<"X", "Y">>}

GenSuffixes == {None, <<"S">>, <<"S", "T">>}

GenPadders == {None, <<"p">>}

\* the values the rings return during one read: n zeros, or 0, 1, 0, ...
Rings ==
  UNION {{[i \in 1..n |-> 0], [i \in 1..n |-> (i + 1) % 2]} : n \in 0..MaxDraws}

NoRun == [active |-> FALSE, from |-> 0, next |-> 0, data |-> << >>, parts |-> 0]

\* the run of sequential reads so far: each read that returns starts where
\* the one before ended, or starts a new run
Run(start, end, r) ==
  IF r.err # "none" \/ start > end THEN NoRun
  ELSE IF xg.run.active /\ start = xg.run.next
  THEN [active |-> TRUE, from |-> xg.run.from, next |-> end + 1,
        data |-> xg.run.data \o r.ret, parts |-> xg.run.parts + 1]
  ELSE [active |-> TRUE, from |-> start, next |-> end + 1, data |-> r.ret,
        parts |-> 1]

InitGen ==
  /\ folders = EmptyDict
  /\ files = EmptyDict
  /\ xattrs = EmptyDict
  /\ fd = 0
  /\ now = 0
  /\ last = [op |-> "init", err |-> "none", ret |-> None] @@ NoArgs
  /\ \E size \in GenSizes, filler \in GenFillers, prefix \in GenPrefixes,
        suffix \in GenSuffixes, padder \in GenPadders :
       LET built(g) ==
             /\ g.err = "none"
             /\ g.ok
             /\ xg = [n |-> 0, gen |-> g.gen, size |-> size, filler |-> filler,
                      padder |-> padder,
                      last |-> [op |-> "init", start |-> 0, end |-> 0,
                                ret |-> << >>, err |-> "none"],
                      run |-> NoRun]
       IN  built(XegerGen(size, filler, prefix, suffix, padder,
                          PyInt(DEFAULT_MAX_RANDOM), << >>))

\* gen.read(start, end) returned or raised; a call that does not return
\* ("hang") is the last one
GenDone(start, end, r) ==
  /\ r.ok
  /\ r.rnd = << >>
  /\ xg' = [xg EXCEPT
              !.n = @ + 1,
              !.gen = r.gen,
              !.last = [op |-> "read", start |-> start, end |-> end,
                        ret |-> r.ret, err |-> r.err],
              !.run = Run(IF start < 0 THEN 0 ELSE start,
                          IF end > xg.size - 1 THEN xg.size - 1 ELSE end, r)]
  /\ UNCHANGED <<folders, files, xattrs, fd, now, last>>

GenRead ==
  /\ xg.n < MaxGenReads
  /\ xg.last.err # "hang"
  /\ \E start \in (0 - 1)..(xg.size - 1), end \in 0..xg.size, rnd \in Rings :
       GenDone(start, end, XegerGen_read(xg.gen, start, end, rnd))

NextGen ==
  \/ GenRead

SpecGen == InitGen /\ [][NextGen]_vars

(***************************************************************************)
(* XegerGen with patterns whose emission can be empty, read over ranges of *)
(* its content.                                                            *)
(***************************************************************************)
\* a{0} emits nothing; a? emits nothing when its ring returns 0
P_none == <<"a", "{", "0", "}">>

P_maybe == <<"a", "?">>

EmptyFillers == {P_ab, P_none, P_maybe}

EmptyPadders == {None, P_none}

InitEmpty ==
  /\ folders = EmptyDict
  /\ files = EmptyDict
  /\ xattrs = EmptyDict
  /\ fd = 0
  /\ now = 0
  /\ last = [op |-> "init", err |-> "none", ret |-> None] @@ NoArgs
  /\ \E size \in GenSizes, filler \in EmptyFillers, prefix \in GenPrefixes,
        suffix \in GenSuffixes, padder \in EmptyPadders :
       LET built(g) ==
             /\ g.err = "none"
             /\ g.ok
             /\ xg = [n |-> 0, gen |-> g.gen, size |-> size, filler |-> filler,
                      padder |-> padder,
                      last |-> [op |-> "init", start |-> 0, end |-> 0,
                                ret |-> << >>, err |-> "none"],
                      run |-> NoRun]
       IN  built(XegerGen(size, filler, prefix, suffix, padder,
                          PyInt(DEFAULT_MAX_RANDOM), << >>))

SpecEmpty == InitEmpty /\ [][NextGen]_vars

(***************************************************************************)
(* Two readers of one Xeger file.  Each read runs as one step on the       *)
(* file's generator; next to it each reader has a generator of its own,    *)
(* built the same way, on which the reader's reads alone are replayed.     *)
(***************************************************************************)
\* bound: the number of reads the two readers make together
MaxReaderReads == 2

Readers == {1, 2}

InitReaders ==
  /\ folders = EmptyDict
  /\ files = EmptyDict
  /\ xattrs = EmptyDict
  /\ fd = 0
  /\ now = 0
  /\ last = [op |-> "init", err |-> "none", ret |-> None] @@ NoArgs
  /\ \E size \in GenSizes, filler \in {None, P_ab}, prefix \in {None, <<"X">>},
        suffix \in {None, <<"S", "T">>} :
       LET built(g) ==
             /\ g.err = "none"
             /\ g.ok
             /\ xg = [n |-> 0, gen |-> g.gen, size |-> size,
                      alone |-> [r \in Readers |-> g.gen],
                      last |-> [op |-> "init", reader |-> 0, start |-> 0,
                                end |-> 0, ret |-> << >>, err |-> "none",
                                alone_ret |-> << >>, alone_err |-> "none"]]
       IN  built(XegerGen(size, filler, prefix, suffix, <<"p">>,
                          PyInt(DEFAULT_MAX_RANDOM), << >>))

\* SizefsFuse.read(path, size, offset) of reader r, with offset <= L - 1:
\* generator.read(offset, min(offset + size - 1, L - 1))
ReaderRead(r) ==
  /\ xg.n < MaxReaderReads
  /\ \E start \in 0..(xg.size - 1) :
       \E end \in (start - 1)..(xg.size - 1) :
         LET done(shared, own) ==
               xg' = [xg EXCEPT
                        !.n = @ + 1,
                        !.gen = shared.gen,
                        !.alone[r] = own.gen,
                        !.last = [op |-> "read", reader |-> r,
                                  start |-> start, end |-> end,
                                  ret |-> shared.ret, err |-> shared.err,
                                  alone_ret |-> own.ret,
                                  alone_err |-> own.err]]
         IN  done(XegerGen_read(xg.gen, start, end, << >>),
                  XegerGen_read(xg.alone[r], start, end, << >>))
  /\ UNCHANGED <<folders, files, xattrs, fd, now, last>>

NextReaders ==
  \/ \E r \in Readers : ReaderRead(r)

SpecReaders == InitReaders /\ [][NextReaders]_vars

(***************************************************************************)
(* Patterns on their own: XegerGen constructed with patterns that are      *)
(* absent, empty or given, in every combination; and patterns parsed, well *)
(* formed or not.                                                          *)
(***************************************************************************)
PatternArgs == {None, << >>, P_ab}

\* one pattern of each malformed kind: an unmatched ( and [, an empty set, a
\* reserved character in a set, a multiplier without an atom, { without },
\* {} and text in braces, a trailing backslash at the top level, in a set
\* and in a group
MalformedPatterns ==
  {<<"(", "a">>, <<"[", "a">>, <<"[", "]">>, <<"[", "a", "*", "]">>,
   <<"*", "a">>, <<"a", "{", "2">>, <<"a", "{", "}">>, <<"a", "{", "x", "}">>,
   <<"a", "\\">>, <<"[", "a", "\\">>, <<"(", "a", "\\">>}

\* patterns that parse
WellFormedPatterns ==
  {P_ab, P_set, <<"a", "{", "2", "}">>, <<"(", "a", "b", ")", "*">>,
   <<"a", "\\", "*">>}

InitPatterns ==
  /\ folders = EmptyDict
  /\ files = EmptyDict
  /\ xattrs = EmptyDict
  /\ fd = 0
  /\ now = 0
  /\ last = [op |-> "init", err |-> "none", ret |-> None] @@ NoArgs
  /\ xg = NoGen

\* XegerGen(size, filler=..., prefix=..., suffix=..., padder=...) returned
\* or raised
PatternsConstruct ==
  /\ xg.n = 0
  /\ \E size \in GenSizes, filler \in PatternArgs, prefix \in PatternArgs,
        suffix \in PatternArgs, padder \in PatternArgs :
       LET built(g) ==
             /\ g.ok
             /\ xg' = [n |-> 1, op |-> "XegerGen", size |-> size,
                       filler |-> filler, prefix |-> prefix,
                       suffix |-> suffix, padder |-> padder, err |-> g.err,
                       gen |-> IF g.err = "none" THEN g.gen ELSE NoGen]
       IN  built(XegerGen(size, filler, prefix, suffix, padder,
                          PyInt(DEFAULT_MAX_RANDOM), << >>))
  /\ UNCHANGED <<folders, files, xattrs, fd, now, last>>

\* Xeger(regex, max_random) returned or raised
PatternsParse ==
  /\ xg.n = 0
  /\ \E regex \in MalformedPatterns \cup WellFormedPatterns :
       xg' = [n |-> 1, op |-> "Xeger", regex |-> regex,
              err |-> Xeger(regex, PyInt(DEFAULT_MAX_RANDOM)).err]
  /\ UNCHANGED <<folders, files, xattrs, fd, now, last>>

NextPatterns ==
  \/ PatternsConstruct
  \/ PatternsParse

SpecPatterns == InitPatterns /\ [][NextPatterns]_vars

(***************************************************************************)
(* Emissions on their own: a pattern parsed with a max_random, then        *)
(* generate() called on the result with the values its rings return.       *)
(***************************************************************************)
\* bounds: the number of generate() calls on one pattern, and the largest
\* value a ring position is sampled from
MaxEmits == 2

MaxRing == 3

\* patterns with a *, + or ? multiplier
RandomPatterns ==
  {<<"a", "*">>,
   <<"a", "+">>,
   <<"a", "?">>,
   <<"(", "a", "b", ")", "*">>}

\* patterns of literals, groups and {n} multipliers
CountedPatterns ==
  {<<"a", "{", "2", "}", "b", "{", "2", "}", "c">>,
   <<"a", "(", "b", "c", ")", "{", "5", "}", "d">>,
   <<"a", "{", "1", "}", "b">>,
   <<"a", "b", "{", "2", "}">>,
   <<"(", "a", "{", "2", "}", "b", ")", "{", "2", "}">>}

\* patterns with a set
SetPatterns ==
  {<<"[", "a", "-", "c", "]">>,
   <<"[", "a", ",", "b", "]">>,
   <<"[", "x", "a", "-", "c", "]">>,
   <<"[", "a", "b", "]", "{", "2", "}">>}

EmitMaxRandoms == {2, 10}

\* the values the rings return during one generate(): at most two draws
EmitRings ==
  UNION {[1..n -> 0..MaxRing] : n \in 0..2}

InitEmit ==
  /\ folders = EmptyDict
  /\ files = EmptyDict
  /\ xattrs = EmptyDict
  /\ fd = 0
  /\ now = 0
  /\ last = [op |-> "init", err |-> "none", ret |-> None] @@ NoArgs
  /\ xg = NoGen

\* Xeger(regex, max_random) returned
EmitParse ==
  /\ xg.n = 0
  /\ \E regex \in RandomPatterns \cup CountedPatterns \cup SetPatterns,
        max_random \in EmitMaxRandoms :
       LET parsed(x) ==
             /\ x.err = "none"
             /\ xg' = [n |-> 1, op |-> "Xeger", regex |-> regex,
                       max_random |-> max_random, node |-> x.node,
                       rnd |-> << >>, items |-> << >>, length |-> 0]
       IN  parsed(Xeger(regex, max_random))
  /\ UNCHANGED <<folders, files, xattrs, fd, now, last>>

\* new_items, length = xeger.generate([], 0) returned, the rings having
\* returned the values of rnd
EmitGenerate ==
  /\ xg.n >= 1
  /\ xg.n <= MaxEmits
  /\ \E rnd \in EmitRings :
       LET emitted(c) ==
             /\ c.ok
             /\ c.rnd = << >>
             /\ xg' = [xg EXCEPT !.n = @ + 1, !.op = "generate",
                                 !.rnd = rnd, !.items = c.content,
                                 !.length = c.len]
       IN  emitted(Emission(xg.node, << >>, 0, rnd))
  /\ UNCHANGED <<folders, files, xattrs, fd, now, last>>

NextEmit ==
  \/ EmitParse
  \/ EmitGenerate

SpecEmit == InitEmit /\ [][NextEmit]_vars

(***************************************************************************)
(* FastRandom on its own: a ring of RING_LEN values sampled at             *)
(* construction, and rand() called on it.                                  *)
(*   r = [randoms, index, len]                                             *)
(***************************************************************************)
\* def __init__(self, min, max, len=255)
RING_LEN == 255

\* bound: the number of rand() calls on one ring
MaxCalls == 257

\* the rings random.randint(min, max) may sample, three of them: position
\* i holds min + (stride * i) % (max - min + 1)
RingStrides == {1, 2, 3}

\* FastRandom.__init__
FastRandom(min, max, stride) ==
  [randoms |-> [i \in 1..RING_LEN |-> min + ((stride * i) % (max - min + 1))],
   index |-> 0,
   len |-> RING_LEN]

rand_short(r) ==
  [value |-> r.randoms[r.index + 1],
   r |-> [r EXCEPT !.index = IF r.index < r.len - 2 THEN r.index + 1 ELSE 0]]

\* FastRandom.rand: [value, r]
rand(r) ==
  [value |-> r.randoms[r.index + 1],
   r |-> [r EXCEPT !.index = IF r.index < r.len - 1 THEN r.index + 1 ELSE 0]]

\* the (min, max) the parser constructs rings with: ? , a set of three, *
\* and +
RingRanges == {<<0, 1>>, <<0, 2>>, <<0, 10>>, <<1, 10>>}

InitRandom ==
  /\ folders = EmptyDict
  /\ files = EmptyDict
  /\ xattrs = EmptyDict
  /\ fd = 0
  /\ now = 0
  /\ last = [op |-> "init", err |-> "none", ret |-> None] @@ NoArgs
  /\ xg = NoGen

\* FastRandom(min, max) returned
RandomConstruct ==
  /\ xg.n = 0
  /\ \E range \in RingRanges, stride \in RingStrides :
       xg' = [n |-> 1, op |-> "FastRandom", min |-> range[1],
              max |-> range[2], r |-> FastRandom(range[1], range[2], stride),
              values |-> << >>]
  /\ UNCHANGED <<folders, files, xattrs, fd, now, last>>

\* r.rand() returned
RandomRand ==
  /\ xg.n >= 1
  /\ xg.n <= MaxCalls
  /\ LET returned(v) ==
           xg' = [xg EXCEPT !.n = @ + 1, !.op = "rand", !.r = v.r,
                            !.values = Append(@, v.value)]
     IN  returned(rand(xg.r))
  /\ UNCHANGED <<folders, files, xattrs, fd, now, last>>

NextRandom ==
  \/ RandomConstruct
  \/ RandomRand

SpecRandom == InitRandom /\ [][NextRandom]_vars

(***************************************************************************)
(* Properties                                                              *)
(***************************************************************************)
\* len(read(...)) demanded of a file of size L: sz bytes when off + sz <= L,
\* max(0, L - off) bytes at the tail
ExpectedLength(L, sz, off) ==
  IF off + sz <= L THEN sz ELSE IF L > off THEN L - off ELSE 0

\* C1, as stated: whenever read(path, sz, off) has returned from a file
\* served by a zeros, ones or alpha_num generator, it returned sz bytes if
\* off + sz <= L and max(0, L - off) bytes otherwise.
C1_ReadLength ==
  (/\ last.op = "read"
   /\ last.err = "none"
   /\ last.path \in DOMAIN files
   /\ files[last.path].generator.kind \in {"zeros", "ones", "alpha_num"})
  => Len(last.ret) = ExpectedLength(files[last.path].attrs.st_size,
                                    last.size, last.offset)

\* C2, as stated: a read(start, end) of an XegerGen of size L with
\* 0 <= start <= end <= L - 1 does not raise and returns end - start + 1
\* bytes.
C2_ReadCompletes ==
  (/\ xg.n > 0
   /\ 0 <= xg.last.start
   /\ xg.last.start <= xg.last.end
   /\ xg.last.end <= xg.size - 1)
  => /\ xg.last.err = "none"
     /\ Len(xg.last.ret) = xg.last.end - xg.last.start + 1

\* C3, as stated: after any earlier reads, reading len(P) bytes at offset 0
\* returns the prefix P, and reading len(S) bytes at offset L - len(S)
\* returns the suffix S.
C3_PrefixSuffixExact ==
  xg.n > 0 =>
    /\ (/\ xg.gen.prefix_length >= 1
        /\ xg.last.start = 0
        /\ xg.last.end = xg.gen.prefix_length - 1)
       => (xg.last.err = "none" /\ xg.last.ret = xg.gen.prefix)
    /\ (/\ xg.gen.suffix_length >= 1
        /\ xg.last.start = xg.size - xg.gen.suffix_length
        /\ xg.last.end = xg.size - 1)
       => (xg.last.err = "none" /\ xg.last.ret = xg.gen.suffix)

\* a pattern of literals and {n} multipliers only
IsDeterministic(pattern) ==
  \A i \in 1..Len(pattern) : pattern[i] \notin {"[", "*", "+", "?"}

\* what one generate() of a deterministic ring appends
Expansion(node) == Join(Emission(node, << >>, 0, << >>).content)

\* data is repetitions of F, then at most one proper prefix of F, then
\* padder bytes
InBodyLanguage(data, F, pad) ==
  \E k \in 0..Len(data) :
    /\ \A i \in 1..k : data[i] = F[((i - 1) % Len(F)) + 1]
    /\ \A i \in (k + 1)..Len(data) : data[i] = pad[((i - k - 1) % Len(pad)) + 1]

\* C4, as stated: with a deterministic filler F, the concatenation of
\* sequential reads over the body region (each starting at the previous
\* read's end + 1) is repetitions of F, at most one proper prefix of F, then
\* padder bytes.
C4_SequentialReads ==
  (/\ xg.n > 0
   /\ IsDeterministic(xg.filler)
   /\ IsDeterministic(xg.padder)
   /\ xg.run.active
   /\ xg.run.from >= xg.gen.prefix_length
   /\ xg.run.next <= xg.size - xg.gen.suffix_length)
  => InBodyLanguage(xg.run.data, Expansion(xg.gen.filler),
                    Expansion(xg.gen.padder))

\* os.path.split(f)[0]: the directory a file is in
Parent(f) == PathSplit(f)[1]

\* the generator names _create_generator knows; any other value is
\* replaced by 'ones'
KnownGenerators == {ZEROS, ONES, ALPHA_NUM, REGEX}

StoredValue(name, value) ==
  IF name = K_GENERATOR /\ value \notin KnownGenerators THEN ONES ELSE value

\* C5, as stated: after setxattr(dir, k, v) has returned on an existing
\* directory, every direct-child file f of dir has getxattr(f, k) = v.
C5_DirSetxattrReachesChildren ==
  (/\ last.op = "setxattr"
   /\ last.err = "none"
   /\ last.path \in DOMAIN folders)
  => \A f \in DOMAIN files :
       Parent(f) = last.path
         => /\ f \in DOMAIN xattrs
            /\ CanonicalName(last.name) \in DOMAIN xattrs[f]
            /\ xattrs[f][CanonicalName(last.name)] = last.value

\* C5, amended: when setxattr(dir, k, v) returns on an existing directory
\* that did not already hold v for k, every direct-child file f of dir holds
\* v for k afterwards, 'ones' if k is user.generator and v names no known
\* generator.
C5_DirSetxattrChanged ==
  [][(/\ last'.op = "setxattr"
      /\ last'.err = "none"
      /\ last'.path \in DOMAIN folders
      /\ last'.path \in DOMAIN xattrs
      /\ ~(/\ CanonicalName(last'.name) \in DOMAIN xattrs[last'.path]
           /\ xattrs[last'.path][CanonicalName(last'.name)] = last'.value))
     => \A f \in DOMAIN files' :
          Parent(f) = last'.path
            => /\ f \in DOMAIN xattrs'
               /\ CanonicalName(last'.name) \in DOMAIN xattrs'[f]
               /\ xattrs'[f][CanonicalName(last'.name)]
                    = StoredValue(CanonicalName(last'.name), last'.value)]_vars

\* C5, a case of it: setxattr('/zeros', 'user.generator', 'regex') has
\* returned and the files of /zeros hold 'regex'
C5_Witness ==
  /\ last.op = "setxattr"
  /\ last.err = "none"
  /\ last.path = D_zeros
  /\ last.name = K_GENERATOR
  /\ last.value = REGEX
  /\ F_zeros_100K \in DOMAIN files
  /\ \A f \in DOMAIN files :
       Parent(f) = D_zeros => xattrs[f][K_GENERATOR] = REGEX

\* C6, as stated: setxattr(path, ...) changes the xattr map and generator of
\* path itself and, if path is a directory, of the files whose parent
\* directory is exactly path; every other xattr map and generator is
\* unchanged.
C6_SetxattrFrame ==
  [][last'.op = "setxattr"
     => \A p \in DOMAIN xattrs :
          \/ p = last'.path
          \/ (/\ last'.path \in DOMAIN folders
              /\ p \in DOMAIN files
              /\ Parent(p) = last'.path)
          \/ (/\ p \in DOMAIN xattrs'
              /\ xattrs'[p] = xattrs[p]
              /\ p \in DOMAIN files
                   => (/\ p \in DOMAIN files'
                       /\ files'[p].generator = files[p].generator))]_vars

\* the same kind of generator and, for an XegerGen, the same rings
SameConfiguration(g, h) ==
  /\ g.kind = h.kind
  /\ g.kind = "regex"
       => /\ g.filler = h.filler
          /\ g.padder = h.padder
          /\ g.prefix = h.prefix
          /\ g.suffix = h.suffix

\* what _create_generator builds from the file's current xattr map
Resolved(f) == create_generator(State, f, files[f].attrs.st_size, Env0(0))

\* C7, as stated: in every reachable state each file's cached generator is
\* the one generator resolution builds from the file's current xattr map.
C7_GeneratorMatchesXattrs ==
  \A f \in DOMAIN files :
    /\ Resolved(f).err = "none"
    /\ SameConfiguration(files[f].generator, Resolved(f).ret)

\* C8: every file's st_size is the value computed from its basename, in
\* every reachable state (so it never changes while the file exists, across
\* setxattr, removexattr, read, directory rename and re-creation).
C8_SizeFromBasename ==
  \A f \in DOMAIN files :
    LET m == FILE_REGEX_match(PathSplit(f)[2])
    IN  m.matched /\ files[f].attrs.st_size = calculate_file_size(m)

\* C8, a case of it: a directory rename has moved /zeros/100K to /z/100K
\* with its size
C8_Witness ==
  /\ last.op = "rename"
  /\ PathJoin(D_z, default_files[1]) \in DOMAIN files
  /\ F_zeros_100K \notin DOMAIN files
  /\ files[PathJoin(D_z, default_files[1])].attrs.st_size = 100 * ONE_K

\* C9, as stated: in every reachable state no file has '/' as its parent.
C9_NoRootFiles ==
  \A f \in DOMAIN files : Parent(f) # ROOT

\* C9, amended: a file that appears (create, the lazy create of read and
\* getattr, a directory rename) has a parent that is then a directory, and
\* getattr never makes a file whose parent is '/'.
C9_FilesCreatedInDirectories ==
  [][\A f \in DOMAIN files' \ DOMAIN files :
       /\ Parent(f) \in DOMAIN folders'
       /\ last'.op = "getattr" => Parent(f) # ROOT]_vars

\* C9, a case of it: getattr has lazily created /zeros/2B
C9_Witness ==
  /\ last.op = "getattr"
  /\ last.err = "none"
  /\ last.path = F_zeros_2B
  /\ F_zeros_2B \in DOMAIN files

\* st_mtime of a path that is a directory or a file
Mtime(fo, fi, p) ==
  IF p \in DOMAIN fo THEN fo[p].st_mtime ELSE fi[p].attrs.st_mtime

\* C10: a setxattr(path, name, value) whose canonical name already maps to
\* value on path leaves the path's mtime and every xattr map unchanged; one
\* that changes or adds a value on an existing directory or file sets that
\* path's mtime to the time of the call.
C10_SetxattrMtime ==
  [][(last'.op = "setxattr" /\ last'.path \in DOMAIN xattrs)
     => IF /\ CanonicalName(last'.name) \in DOMAIN xattrs[last'.path]
           /\ xattrs[last'.path][CanonicalName(last'.name)] = last'.value
        THEN /\ xattrs' = xattrs
             /\ last'.path \in DOMAIN folders \cup DOMAIN files
                  => Mtime(folders', files', last'.path)
                       = Mtime(folders, files, last'.path)
        ELSE last'.path \in DOMAIN folders \cup DOMAIN files
               => Mtime(folders', files', last'.path) = now']_vars

\* C10, a case of it: setxattr('/zeros', 'user.generator', 'regex') changed
\* the value and /zeros carries the time of the call
C10_Witness ==
  /\ last.op = "setxattr"
  /\ last.path = D_zeros
  /\ last.name = K_GENERATOR
  /\ last.value = REGEX
  /\ xattrs[D_zeros][K_GENERATOR] = REGEX
  /\ now >= 1
  /\ folders[D_zeros].st_mtime = now

\* the values user.generator may hold on a file: unset, the four known names
\* and a name that is none of them
GeneratorValues == {None, ZEROS, ONES, ALPHA_NUM, REGEX, V_ab}

\* the kind of generator the claim assigns to a value of user.generator
SelectedKind(v) ==
  IF v = ZEROS THEN "zeros"
  ELSE IF v = ALPHA_NUM THEN "alpha_num"
  ELSE IF v = REGEX THEN "regex"
  ELSE "ones"

\* the object's state with user.generator of file f set to v (unset for None)
WithGenerator(f, v) ==
  [State EXCEPT !.xattrs[f] = IF v = None THEN Del(@, K_GENERATOR)
                              ELSE Put(@, K_GENERATOR, v)]

\* C11: for the file of the last call and every value v of user.generator,
\* generator resolution returns for every v other than 'regex' and, when it
\* returns, builds the zeros, ones, alpha_num or Xeger generator for
\* 'zeros', 'ones', 'alpha_num', 'regex' and the ones generator for an unset
\* or any other value; the generator a successful create installs is the
\* selected one, and a read served by the ones generator is '1' bytes.
C11_GeneratorSelection ==
  /\ last.path \in DOMAIN files \cap DOMAIN xattrs
       => \A v \in GeneratorValues :
            LET r == create_generator(WithGenerator(last.path, v), last.path,
                                      files[last.path].attrs.st_size, Env0(0))
            IN  /\ v # REGEX => r.err = "none"
                /\ r.err = "none" => r.ret.kind = SelectedKind(v)
  /\ (/\ last.op = "create"
      /\ last.err = "none"
      /\ last.path \in DOMAIN files \cap DOMAIN xattrs)
       => files[last.path].generator.kind
            = SelectedKind(Get(xattrs[last.path], K_GENERATOR, None))
  /\ (/\ last.op = "read"
      /\ last.err = "none"
      /\ last.path \in DOMAIN files
      /\ files[last.path].generator.kind = "ones")
       => \A i \in 1..Len(last.ret) : last.ret[i] = "1"

\* C11, a case of it: a file created in the freshly made directory /z is
\* served by the ones generator
C11_Witness ==
  /\ last.op = "create"
  /\ last.err = "none"
  /\ last.path = F_z_2B
  /\ D_z \in DOMAIN folders
  /\ files[F_z_2B].generator.kind = "ones"

\* the xattr names create copies from the folder
RecognizedKeys ==
  {K_GENERATOR, K_FILLER, K_PREFIX, K_SUFFIX, K_PADDER, K_MAX_RANDOM}

\* create(path) has just returned a descriptor for a path whose folder has an
\* xattr map
Created ==
  /\ last.op = "create"
  /\ last.err = "none"
  /\ last.path \in DOMAIN files \cap DOMAIN xattrs
  /\ Parent(last.path) \in DOMAIN xattrs

C13_FdMonotonic ==
  [][/\ fd' >= fd
     /\ last'.op \in {"create", "open"}
          => IF last'.err = "none"
             THEN last'.ret = fd + 1 /\ fd' = fd + 1
             ELSE fd' = fd]_vars

\* C13, a case of it: open('/zeros/2B') returned the counter's new value for
\* a file an earlier call created
C13_Witness ==
  /\ last.op = "open"
  /\ last.err = "none"
  /\ last.path = F_zeros_2B
  /\ last.ret = fd

\* C14: rename(old, new) with old a directory and new not a directory
\* returns; afterwards new is a directory, old is not, and every file that
\* was in old is under new with the same size, xattrs and generator kind.
C14_RenameDirectory ==
  [][(/\ last'.op = "rename"
      /\ last'.path \in DOMAIN folders
      /\ last'.new \notin DOMAIN folders)
     => /\ last'.err = "none"
        /\ last'.new \in DOMAIN folders'
        /\ last'.path \notin DOMAIN folders'
        /\ \A f \in {g \in DOMAIN files : Parent(g) = last'.path} :
             LET p == PathJoin(last'.new, PathSplit(f)[2])
             IN  /\ p \in DOMAIN files' \cap DOMAIN xattrs'
                 /\ files'[p].attrs.st_size = files[f].attrs.st_size
                 /\ files'[p].generator.kind = files[f].generator.kind
                 /\ f \in DOMAIN xattrs => xattrs'[p] = xattrs[f]]_vars

\* the step leaves the folder, file and xattr maps as they were
MapsUnchanged ==
  /\ folders' = folders
  /\ files' = files
  /\ xattrs' = xattrs

\* C15: rename(old, new) raises EPERM when old is a file, or when old is a
\* directory and new is a directory, and ENOENT when old is neither a
\* directory nor a file; in each of these cases the folder, file and xattr
\* maps are unchanged.
C15_RenameRefusals ==
  [][last'.op = "rename"
     => /\ (\/ last'.path \in DOMAIN files
            \/ /\ last'.path \in DOMAIN folders
               /\ last'.new \in DOMAIN folders)
             => last'.err = "EPERM" /\ MapsUnchanged
        /\ last'.path \notin DOMAIN folders \cup DOMAIN files
             => last'.err = "ENOENT" /\ MapsUnchanged]_vars

\* C16: rmdir(path) of a directory with no files returns, and the directory
\* and its xattr map are gone; of a directory with a file it raises
\* ENOTEMPTY; of an unknown path it raises ENOENT; an rmdir that raises
\* leaves the folder, file and xattr maps unchanged.
C16_Rmdir ==
  [][last'.op = "rmdir"
     => /\ IF last'.path \notin DOMAIN folders
           THEN last'.err = "ENOENT"
           ELSE IF \E f \in DOMAIN files : Parent(f) = last'.path
           THEN last'.err = "ENOTEMPTY"
           ELSE /\ last'.err = "none"
                /\ last'.path \notin DOMAIN folders' \cup DOMAIN xattrs'
        /\ last'.err # "none" => MapsUnchanged]_vars

\* C17: mkdir(path) returns only when the parent of path is the root, and
\* then path is a directory with no files; when the parent is not the root
\* it raises EPERM and leaves the maps unchanged; and in every reachable
\* state every directory is the root or directly under the root.
C17_MkdirDepthOne ==
  /\ [](\A d \in DOMAIN folders : d = ROOT \/ Parent(d) = ROOT)
  /\ [][last'.op = "mkdir"
        => /\ last'.err = "none"
               => /\ Parent(last'.path) = ROOT
                  /\ last'.path \in DOMAIN folders'
                  /\ \A f \in DOMAIN files' : Parent(f) # last'.path
           /\ Parent(last'.path) # ROOT
               => last'.err = "EPERM" /\ MapsUnchanged]_vars

\* C18: chmod, chown, truncate, write and symlink raise EPERM in every state
\* and leave the folder, file and xattr maps and the fd counter unchanged.
C18_AlwaysRefused ==
  [][last'.op \in {"chmod", "chown", "truncate", "write", "symlink"}
     => /\ last'.err = "EPERM"
        /\ MapsUnchanged
        /\ fd' = fd]_vars

\* C18, a case of it: write was refused on a filesystem an earlier call had
\* added a file to
C18_Witness ==
  /\ last.op = "write"
  /\ last.err = "EPERM"
  /\ F_zeros_2B \in DOMAIN files

\* C19: read(path, size, offset) of a path that is not a file returns, with
\* the file created, when the parent is a directory and the basename matches
\* the size grammar, and only then; otherwise it raises ENOENT and creates
\* nothing.
C19_ReadCreates ==
  [][(last'.op = "read" /\ last'.path \notin DOMAIN files)
     => IF /\ Parent(last'.path) \in DOMAIN folders
           /\ FILE_REGEX_match(PathSplit(last'.path)[2]).matched
        THEN last'.err = "none" /\ last'.path \in DOMAIN files'
        ELSE last'.err = "ENOENT" /\ MapsUnchanged]_vars

\* C20: getxattr and removexattr of a name that is not set on a path that
\* exists raise ENODATA and change nothing; getxattr, setxattr and
\* removexattr of a path that is neither a directory nor a file raise ENOENT.
C20_XattrErrors ==
  [][last'.op \in {"getxattr", "setxattr", "removexattr"}
     => IF last'.path \notin DOMAIN folders \cup DOMAIN files
        THEN last'.err = "ENOENT"
        ELSE (/\ last'.op \in {"getxattr", "removexattr"}
              /\ \/ last'.path \notin DOMAIN xattrs
                 \/ CanonicalName(last'.name) \notin DOMAIN xattrs[last'.path])
               => last'.err = "ENODATA" /\ MapsUnchanged]_vars

\* the name under which an xattr is kept, in the claim's words: 'user.' +
\* name for a name without a dot, the name itself otherwise
ClaimedName(name) == IF Contains(name, ".") THEN name ELSE USER_PREFIX \o name

\* C21: a name without a dot is kept as 'user.' + name and a name with a dot
\* as it is, by setxattr, getxattr and removexattr alike: after
\* setxattr(p, k, v) has returned, getxattr(p, k) and getxattr(p, 'user.k')
\* return v and removexattr(p, k) removes the entry; a getxattr that returns
\* gives the entry under that name, and after a removexattr that returns the
\* entry under that name is gone.
C21_CanonicalNames ==
  LET c == ClaimedName(last.name)
  IN  /\ (last.op = "setxattr" /\ last.err = "none"
          /\ last.path \in DOMAIN xattrs)
           => /\ c \in DOMAIN xattrs[last.path]
              /\ xattrs[last.path][c] = last.value
              /\ c # last.name => last.name \notin DOMAIN xattrs[last.path]
              /\ getxattr(State, last.path, last.name)
                   = Ok(State, last.value)
              /\ getxattr(State, last.path, c) = Ok(State, last.value)
              /\ c \notin DOMAIN removexattr(State, last.path, last.name,
                                             Env0(0)).st.xattrs[last.path]
      /\ (last.op = "getxattr" /\ last.err = "none"
          /\ last.path \in DOMAIN xattrs)
           => /\ c \in DOMAIN xattrs[last.path]
              /\ last.ret = xattrs[last.path][c]
      /\ (last.op = "removexattr" /\ last.err = "none")
           => c \notin DOMAIN xattrs[last.path]

\* the names of the direct children of a directory, in the claim's words:
\* of the root its directories, of another directory its files
DirectChildren(path) ==
  IF path = ROOT
  THEN {PathSplit(d)[2] : d \in {e \in DOMAIN folders :
                                  e # ROOT /\ Parent(e) = ROOT}}
  ELSE {PathSplit(f)[2] : f \in {g \in DOMAIN files : Parent(g) = path}}

\* C22: readdir(path) of a directory returns '.', '..' and then exactly the
\* direct children of path, each once: for the root the names of the
\* top-level directories, for another directory the basenames of the files
\* whose parent it is.
C22_ReaddirChildren ==
  (last.op = "readdir" /\ last.path \in DOMAIN folders)
    => /\ last.err = "none"
       /\ Len(last.ret) = 2 + Cardinality(DirectChildren(last.path))
       /\ last.ret[1] = <<".">>
       /\ last.ret[2] = <<".", ".">>
       /\ {last.ret[i] : i \in 3..Len(last.ret)} = DirectChildren(last.path)

\* the names of the files every seed directory starts with
SeedNames ==
  {<<"1", "0", "0", "K">>, <<"4", "M">>, <<"4", "M", "-", "1", "B">>,
   <<"4", "M", "+", "1", "B">>}

InSizeGrammar(in) ==
  /\ in.num.text # << >>
  /\ in.unit \in {"B", "K", "M", "G", "T", "P", "E"}
  /\ in.shift.sign \in {"", "+", "-"}

\* the decimal multipliers of the units used here
ClaimedMultiplier(unit) == IF unit = "K" THEN 1000 ELSE 1

\* the size the claim gives a well-formed name
ClaimedSize(in) ==
  LET size  == (in.num.tenths * ClaimedMultiplier(in.unit)) \div 10
      shift == in.shift.value * ClaimedMultiplier(in.shift.unit)
      total == IF in.shift.sign = "-" THEN size - shift
               ELSE IF in.shift.sign = "+" THEN size + shift
               ELSE size
  IN  IF total < 0 THEN 0 ELSE total

\* C24: create of a file name in the size grammar gives the file the size
\* int(number * multiplier) plus or minus shift * multiplier, with decimal
\* multipliers, 0 when that is negative; create of a file name outside the
\* grammar raises EPERM and creates nothing.
C24_SizeGrammar ==
  [][last'.op = "create"
     => \A in \in SizeInputs :
          PathJoin(D_zeros, NameOf(in)) = last'.path
            => IF InSizeGrammar(in)
               THEN /\ last'.err = "none"
                    /\ last'.path \in DOMAIN files'
                    /\ files'[last'.path].attrs.st_size = ClaimedSize(in)
               ELSE last'.err = "EPERM" /\ MapsUnchanged]_vars

\* the last offset SizefsFuse.read asks the generator for
EndOfContent ==
  LET size_bytes == files[last.path].attrs.st_size
  IN  IF last.offset + last.size - 1 < size_bytes - 1
      THEN last.offset + last.size - 1
      ELSE size_bytes - 1

\* C25: an alphanumeric generator's read(start, end) with start <= end
\* returns end - start + 1 bytes, each in [A-Za-z0-9], taken from the buffer
\* sampled at construction, so that reading the same range again returns the
\* same bytes.
C25_AlphaNumRead ==
  (/\ last.op = "read"
   /\ last.err = "none"
   /\ last.path \in DOMAIN files
   /\ files[last.path].generator.kind = "alpha_num"
   /\ last.offset <= files[last.path].attrs.st_size - 1
   /\ last.offset <= EndOfContent)
  => /\ Len(last.ret) = EndOfContent - last.offset + 1
     /\ \A i \in 1..Len(last.ret) : \E j \in 1..Len(CHARS) : last.ret[i] = CHARS[j]
     /\ last.ret = SizeFSAlphaNumGen_read(files[last.path].generator,
                                          last.offset, EndOfContent)

\* the literal pattern '0' as a parsed pattern
Literal0 == Xeger(<<"0">>, PyInt(DEFAULT_MAX_RANDOM)).node

\* C26: XegerGen construction replaces every empty-string pattern by its
\* default, in every combination of empty arguments: an empty filler and an
\* empty padder each become the literal pattern '0', an empty prefix and an
\* empty suffix each become the empty string.
C26_EmptyPatternDefaults ==
  (xg.n = 1 /\ xg.op = "XegerGen")
    => /\ xg.err = "none"
       /\ xg.filler = << >> => xg.gen.filler = Literal0
       /\ xg.padder = << >> => xg.gen.padder = Literal0
       /\ xg.prefix = << >>
            => xg.gen.prefix = << >> /\ xg.gen.prefix_length = 0
       /\ xg.suffix = << >>
            => xg.gen.suffix = << >> /\ xg.gen.suffix_length = 0

\* C27: parsing a malformed pattern raises XegerError and no other kind of
\* exception.
C27_ParseErrors ==
  (xg.n = 1 /\ xg.op = "Xeger" /\ xg.regex \in MalformedPatterns)
    => xg.err = "XegerError"


\* C28: a read(start, end) whose start is the previous read's last returned
\* offset + 1 returns the stored remainder as its first bytes; a read with
\* any other start that stashes no new tail (it runs to the end of the
\* content) leaves the remainder empty.
C28_RemainderUse ==
  [][(/\ xg.n > 0
      /\ xg'.n = xg.n + 1
      /\ xg.run.active
      /\ xg'.last.err = "none"
      /\ 0 <= xg'.last.start
      /\ xg'.last.start <= xg'.last.end
      /\ xg'.last.end <= xg.size - 1)
     => /\ xg'.last.start = xg.run.next
             => StartsWith(xg'.last.ret, xg.gen.remainder)
        /\ (xg'.last.start # xg.run.next /\ xg'.last.end = xg.size - 1)
             => xg'.gen.remainder = << >>]_vars


\* n bytes of the repetitions of a non-empty string
Cycle(str, n) == [i \in 1..n |-> str[((i - 1) % Len(str)) + 1]]

\* P, the whole copies of F that fit before the suffix, padder bytes for the
\* residual length, S
WholeFile(P, F, pad, S, L) ==
  LET room == L - Len(P) - Len(S)
      k    == room \div Len(F)
  IN  P \o Cycle(F, k * Len(F)) \o Cycle(pad, room - k * Len(F)) \o S

\* C29: with a deterministic filler F, prefix P and suffix S,
\* len(P) + len(S) <= L, the whole-file read(0, L - 1) returns P, then
\* floor((L - len(P) - len(S)) / len(F)) whole copies of F, then padder
\* emissions cut to the residual length, then S.
C29_WholeFileLayout ==
  (/\ xg.n > 0
   /\ xg.last.start = 0
   /\ xg.last.end = xg.size - 1
   /\ IsDeterministic(xg.filler)
   /\ IsDeterministic(xg.padder)
   /\ xg.gen.prefix_length + xg.gen.suffix_length <= xg.size)
  => /\ xg.last.err = "none"
     /\ xg.last.ret = WholeFile(xg.gen.prefix, Expansion(xg.gen.filler),
                                Expansion(xg.gen.padder), xg.gen.suffix,
                                xg.size)


\* the last read, of bytes s..e of a generator with a deterministic filler,
\* returned, and its last filler emission overran e without reaching the
\* suffix: the emissions start at b, the first byte after the prefix, and
\* the last of them ends at last_offset
Overran(s, e, b, f) ==
  /\ xg.last.err = "none"
  /\ IsDeterministic(xg.filler)
  /\ b <= e
  /\ (e - b + 1) % f # 0
  /\ b + ((e - b + 1) \div f + 1) * f - 1 <= xg.size - 1 - xg.gen.suffix_length

\* the returned bytes end with the emission's part up to the boundary, the
\* remainder is the rest of it, and the bytes returned after the prefix
\* followed by the remainder are whole emissions of F
CutAtBoundary(s, e, b, F) ==
  LET cut  == (e - b + 1) % Len(F)
      body == SubSeq(xg.last.ret, b - s + 1, Len(xg.last.ret))
  IN  /\ Len(xg.last.ret) = e - s + 1
      /\ SubSeq(xg.last.ret, Len(xg.last.ret) - cut + 1, Len(xg.last.ret))
           = SubSeq(F, 1, cut)
      /\ xg.gen.remainder = SubSeq(F, cut + 1, Len(F))
      /\ body \o xg.gen.remainder = Cycle(F, Len(body) + Len(F) - cut)

LastStart == IF xg.last.start < 0 THEN 0 ELSE xg.last.start

LastEnd == IF xg.last.end > xg.size - 1 THEN xg.size - 1 ELSE xg.last.end

\* the first offset the last read takes from the filler
LastBody ==
  IF LastStart < xg.gen.prefix_length THEN xg.gen.prefix_length ELSE LastStart

\* C30: when the last filler emission of a read (deterministic filler F)
\* overruns the requested end without reaching the suffix, the returned
\* bytes end with the part of that emission up to the boundary, the
\* remainder afterwards is the rest of the same emission, and the filler
\* bytes returned followed by the remainder are a whole number of emissions.
C30_OverrunStashed ==
  (xg.n > 0 /\ Overran(LastStart, LastEnd, LastBody,
                       Len(Expansion(xg.gen.filler))))
  => CutAtBoundary(LastStart, LastEnd, LastBody, Expansion(xg.gen.filler))

C30_Witness ==
  /\ xg.n > 0
  /\ Overran(LastStart, LastEnd, LastBody, Len(Expansion(xg.gen.filler)))
  /\ xg.last.ret = <<"X", "a", "b", "a">>
  /\ xg.gen.remainder = <<"b">>


\* the atom a trailing multiplier of one character applies to: x or (x)
AtomOf(regex) ==
  IF regex[1] = "(" THEN SubSeq(regex, 2, Len(regex) - 2)
  ELSE SubSeq(regex, 1, Len(regex) - 1)

\* the repeat counts claimed for the multiplier: * is 0..m, + is 1..m,
\* ? is 0..1
ClaimedCounts(multiplier, m) ==
  (IF multiplier = "+" THEN 1 ELSE 0)..(IF multiplier = "?" THEN 1 ELSE m)

\* C31: in a generator built with max_random = m, every expansion of x*
\* repeats x between 0 and m times, of x+ between 1 and m times and of x?
\* 0 or 1 times, for every m.
C31_RandomRepeats ==
  (xg.n >= 1 /\ xg.op = "generate" /\ xg.regex \in RandomPatterns)
  => \E count \in ClaimedCounts(xg.regex[Len(xg.regex)], xg.max_random) :
       Join(xg.items) = Cycle(AtomOf(xg.regex), count * Len(AtomOf(xg.regex)))


\* the index of the ) that closes the group opened before position i
RECURSIVE ClosingParen(_, _, _)
ClosingParen(regex, i, depth) ==
  IF regex[i] = ")" THEN IF depth = 0 THEN i
                         ELSE ClosingParen(regex, i + 1, depth - 1)
  ELSE IF regex[i] = "(" THEN ClosingParen(regex, i + 1, depth + 1)
  ELSE ClosingParen(regex, i + 1, depth)

\* the index of the first } at or after position i
RECURSIVE ClosingBrace(_, _)
ClosingBrace(regex, i) ==
  IF regex[i] = "}" THEN i ELSE ClosingBrace(regex, i + 1)

\* str repeated n times
Times(str, n) == Cycle(str, n * Len(str))

\* what the claim says one emission of a pattern of literals, groups and
\* {n} multipliers yields: each atom, a literal or a group, in order,
\* repeated n times when {n} follows it
RECURSIVE ClaimedEmission(_)
ClaimedEmission(regex) ==
  IF regex = << >> THEN << >>
  ELSE LET end  == IF regex[1] = "(" THEN ClosingParen(regex, 2, 0) ELSE 1
           atom == IF regex[1] = "(" THEN ClaimedEmission(SubSeq(regex, 2, end - 1))
                   ELSE <<regex[1]>>
           counted == end < Len(regex) /\ regex[end + 1] = "{"
           close == IF counted THEN ClosingBrace(regex, end + 2) ELSE end
           n == IF counted THEN IntOf(SubSeq(regex, end + 2, close - 1)) ELSE 1
       IN  Times(atom, n) \o ClaimedEmission(SubSeq(regex, close + 1, Len(regex)))

\* C32: for a pattern of literals, groups and {n} multipliers, one emission
\* yields the literals in order, a multiplier applying only to the literal
\* or group immediately before it, repeated exactly n times ({1}: once);
\* a{2}b{2}c yields aabbc and a(bc){5}d yields abcbcbcbcbcd.  A set before
\* {2} is expanded twice.
C32_CountedEmission ==
  /\ (xg.n >= 1 /\ xg.op = "generate" /\ xg.regex \in CountedPatterns)
     => /\ Join(xg.items) = ClaimedEmission(xg.regex)
        /\ xg.length = Len(ClaimedEmission(xg.regex))
  /\ (/\ xg.n >= 1
      /\ xg.op = "generate"
      /\ xg.regex = <<"[", "a", "b", "]", "{", "2", "}">>)
     => /\ xg.length = 2
        /\ Join(xg.items) \in [1..2 -> {"a", "b"}]

C32_Witness ==
  /\ xg.n >= 1
  /\ xg.op = "generate"
  /\ xg.regex = <<"a", "(", "b", "c", ")", "{", "5", "}", "d">>
  /\ Join(xg.items)
       = <<"a", "b", "c", "b", "c", "b", "c", "b", "c", "b", "c", "d">>


\* the members of a set, from the text between its brackets: the characters
\* listed and the characters of each inclusive range a-b
RECURSIVE ClaimedMembers(_)
ClaimedMembers(inner) ==
  IF inner = << >> THEN {}
  ELSE IF Len(inner) >= 3 /\ inner[2] = "-"
  THEN {AsciiTable[k] : k \in {j \in DOMAIN AsciiTable :
                                 /\ Ord(inner[1]) <= 31 + j
                                 /\ 31 + j <= Ord(inner[3])}}
         \cup ClaimedMembers(SubSeq(inner, 4, Len(inner)))
  ELSE {inner[1]} \cup ClaimedMembers(Tail(inner))

\* C33: every expansion of a set [...] appends exactly one byte, and the
\* byte is a member of the set: a listed character or a character within
\* one of the ranges a-b, a comma being an ordinary member.
C33_SetEmission ==
  (/\ xg.n >= 1
   /\ xg.op = "generate"
   /\ xg.regex \in SetPatterns
   /\ xg.regex[Len(xg.regex)] = "]")
  => /\ Len(xg.items) = 1
     /\ xg.length = 1
     /\ Len(xg.items[1]) = 1
     /\ xg.items[1][1] \in ClaimedMembers(SubSeq(xg.regex, 2, Len(xg.regex) - 1))

C33_Witness ==
  /\ xg.n >= 1
  /\ xg.op = "generate"
  /\ xg.regex = <<"[", "a", ",", "b", "]">>
  /\ xg.items = <<<<",">>>>


\* C34: a FastRandom(lo, hi) keeps its cursor within 0..254 after any
\* number of rand() calls, every value it returns lies in lo..hi, and its
\* output is the ring of 255 values repeated in order: call i + 255 returns
\* what call i returned.
C34_RingCursor ==
  (xg.n >= 1 /\ xg.op \in {"FastRandom", "rand"})
  => /\ xg.r.index \in 0..254
     /\ \A i \in 1..Len(xg.values) :
          /\ xg.values[i] \in xg.min..xg.max
          /\ xg.values[i] = xg.r.randoms[((i - 1) % 255) + 1]
          /\ i > 255 => xg.values[i] = xg.values[i - 255]

C34_Witness ==
  /\ xg.n >= 1
  /\ xg.op = "rand"
  /\ Len(xg.values) = 256
  /\ xg.r.index = 1
  /\ xg.values[1] # xg.values[2]


\* C35: in every reachable state the root directory '/' exists with an
\* xattr map: no operation removes it, rmdir('/') included.
C35_RootExists ==
  /\ ROOT \in DOMAIN folders
  /\ ROOT \in DOMAIN xattrs


\* C36: removexattr(dir, name) on a directory that has name set either
\* returns with name removed from the directory and from every file
\* directly in it, or raises and leaves every xattr map unchanged.
C36_RemovexattrAllOrNothing ==
  [][(/\ last'.op = "removexattr"
      /\ last'.path \in DOMAIN folders
      /\ last'.path \in DOMAIN xattrs
      /\ ClaimedName(last'.name) \in DOMAIN xattrs[last'.path])
     => IF last'.err = "none"
        THEN /\ ClaimedName(last'.name) \notin DOMAIN xattrs'[last'.path]
             /\ \A f \in DOMAIN files' :
                  Parent(f) = last'.path
                    => ClaimedName(last'.name) \notin DOMAIN xattrs'[f]
        ELSE xattrs' = xattrs]_vars


\* the errors of the documented taxonomy, as the exceptions that carry them
DocumentedErrors == {"XegerError", "ENOENT", "EPERM", "ENOTEMPTY", "ENODATA"}

\* C37: a setxattr on a Xeger file with a value no generator can be built
\* from fails with an error of the documented taxonomy, and leaves the
\* file's xattr map and generator as they were before the call.
C37_SetxattrRollback ==
  [][(/\ last'.op = "setxattr"
      /\ last'.err # "none"
      /\ last'.path \in DOMAIN files
      /\ last'.path \in DOMAIN xattrs
      /\ Get(xattrs[last'.path], K_GENERATOR, None) = REGEX)
     => /\ last'.err \in DocumentedErrors
        /\ xattrs'[last'.path] = xattrs[last'.path]
        /\ files'[last'.path].generator = files[last'.path].generator]_vars


\* C38: in every reachable state every directory and every file has an
\* entry in the xattr map under its current path, and the xattr map has no
\* entry for a path that is neither a directory nor a file.
C38_XattrsMatchNamespace ==
  DOMAIN xattrs = DOMAIN folders \cup DOMAIN files


\* C39: XegerGen.read returns or raises, it does not run for ever, for
\* every filler and padder the parser accepts and every read range: a
\* pattern whose emission can be empty (a{0}, a?) included, and a residual
\* gap that needs padding.
C39_ReadTerminates ==
  xg.n > 0 => xg.last.err # "hang"


\* C40: with two readers of one Xeger file whose reads run one at a time,
\* every read returns or raises as it would if its reader were alone, with
\* the same length and the same bytes in the prefix and in the suffix.
C40_ReadersIsolated ==
  (xg.n > 0 /\ xg.last.op = "read")
  => /\ xg.last.err = xg.last.alone_err
     /\ Len(xg.last.ret) = Len(xg.last.alone_ret)
     /\ \A i \in 1..Len(xg.last.ret) :
          (\/ xg.last.start + i - 1 < xg.gen.prefix_length
           \/ xg.last.start + i - 1 >= xg.size - xg.gen.suffix_length)
            => xg.last.ret[i] = xg.last.alone_ret[i]

==============================================================================
